---------------------------- MODULE Spec2Model ----------------------------
(***************************************************************************)
(* Wallet provisioning of the Node: the generate-wallet and the            *)
(* recover-wallet configurators                                            *)
(*   node/src/node_configurator/node_configurator_generate_wallet.rs       *)
(*   node/src/node_configurator/node_configurator_recover_wallet.rs        *)
(*                                                                         *)
(* One invocation of configure is a sequential program; pc is its          *)
(* position.  The persisted configuration (persistent_config) outlives an  *)
(* invocation, everything else is reset when the next invocation starts.   *)
(* The arguments of the merged configuration are fixed the first time the  *)
(* invocation consults them (multi_config holds the ones consulted so      *)
(* far), and the input stream delivers its content when it is read.        *)
(***************************************************************************)
EXTENDS Naturals, Sequences, FiniteSets, TLC

VARIABLES
    persistent_config,  \* [seed, password]: the persisted configuration state
    flow,               \* "none", "generate" or "recover"
    pc,                 \* position of the running invocation
    multi_config,       \* consulted arguments: name -> Option value
    seed_check,         \* Option: what mnemonic_seed_exists() returned
    stdout,             \* what has been written to streams.stdout, in order
    stdin_eof,          \* streams.stdin has reported end of input
    reads,              \* the reads of streams.stdin performed, in order
    attempt,            \* prompt cycle of the passphrase protocol (1..)
    first_entry,        \* Option: the first entry of the current cycle
    cycles,             \* the completed cycles: [first, confirmation], in order
    retry_result,       \* Option: what request_password_with_retry returned
    request_result,     \* Option: what request_mnemonic_passphrase returned
    mnemonic_passphrase,\* Option: what make_mnemonic_passphrase returned
    consuming_derivation_path, \* Option: resolved consuming path
    earning_wallet_info,\* Option: Either::Left(address) / Either::Right(path)
    make_parameters,    \* calls of mnemonic_factory.make, in order
    phrase_words,       \* Option: the words get_mnemonic works on
    mnemonic,           \* Option: the generated or recovered Mnemonic
    seed,               \* Option: the seed made by make_mnemonic_seed
    derivations,        \* key pairs derived (Bip32ECKeyPair::from_raw), in order
    config,             \* Option: the WalletCreationConfig parse_args returned
    writes,             \* writes to the persisted configuration, in order
    outcome             \* Option: how the invocation ended

vars == <<persistent_config, flow, pc, multi_config, seed_check,
          stdout,
          stdin_eof, reads, attempt, first_entry, cycles, retry_result,
          request_result, mnemonic_passphrase, consuming_derivation_path,
          earning_wallet_info, make_parameters, phrase_words, mnemonic, seed,
          derivations, config, writes, outcome>>

-----------------------------------------------------------------------------
(* Option<T> is a sequence of length at most one.                          *)
None == <<>>
Some(v) == <<v>>
IsSome(o) == o /= <<>>
Unwrap(o) == o[1]

-----------------------------------------------------------------------------
(* Bounds of the model.                                                    *)

\* distinct entropies the mnemonic factory can draw
MaxEntropy == 2

-----------------------------------------------------------------------------
(* Inputs.                                                                 *)

\* what one line of operator input can be (and what --mnemonic-passphrase
\* can hold): blank, or one of two different texts
Lines == {"", "Mortimer", "remitroM"}
\* the value of --db-password
DbPasswords == {"secret-db-password", "password123"}
\* a seed that was persisted before any invocation of the model
\* (set_mnemonic_seed(b"booga booga", "rick-rolled") in the tests)
PreexistingSeed == [raw |-> "booga booga"]
PreexistingPassword == "rick-rolled"
\* errors of the persisted configuration seen by the callers
PersistentConfigErrors == {"DatabaseError", "NotPresent"}

-----------------------------------------------------------------------------
(* Texts written to streams.stdout.                                        *)

GENERATE_INTRO == "\nPlease provide an extra mnemonic passphrase to ensure your wallet is unique\n(NOTE: This passphrase cannot be changed later and still produce the same addresses).\nYou will encrypt your wallet in a following step...\n"
GENERATE_PROMPT == "  Mnemonic passphrase (recommended): "
RECOVER_INTRO == "\nPlease enter the passphrase for your mnemonic, or Enter if there is none.\nYou will encrypt your wallet in a following step...\n"
RECOVER_PROMPT == "  Mnemonic passphrase: "
CONFIRM_PROMPT == "  Confirm mnemonic passphrase: "
MISMATCH_MSG == "\nPassphrases do not match."
TRY_AGAIN == " Try again.\n"
NO_PASSPHRASE_WARNING == "\nWhile ill-advised, proceeding with no mnemonic passphrase.\nPress Enter to continue..."
GENERATE_COLLISION == "Can't generate wallets: mnemonic seed has already been created"
RECOVER_COLLISION == "Can't recover wallets: mnemonic seed has already been created"

\* flushed_write(streams.stdout, text): one more text on the output stream
flushed_write(out, text) == Append(out, [text |-> text])

\* the texts of the output, in order
Texts(out) == [i \in DOMAIN out |-> out[i].text]
\* how often text t was written
Count(out, t) == Cardinality({i \in DOMAIN out : out[i].text = t})

-----------------------------------------------------------------------------
(* The input stream.  A read of a line yields the line, or the empty text  *)
(* once the stream is exhausted, or it fails; end of input is sticky.      *)

LineInputs == IF stdin_eof
              THEN {[got |-> "eof", text |-> ""], [got |-> "error", text |-> ""]}
              ELSE {[got |-> "line", text |-> l] : l \in Lines}
                   \cup {[got |-> "eof", text |-> ""], [got |-> "error", text |-> ""]}

\* streams.stdin.read(&mut [0u8]): Ok(1) with a byte, Ok(0) at end of input,
\* or Err
ByteInputs == IF stdin_eof
              THEN {[got |-> "eof"], [got |-> "error"]}
              ELSE {[got |-> "byte"], [got |-> "eof"], [got |-> "error"]}

Read(what, input) == Append(reads, [what |-> what, got |-> input.got])

-----------------------------------------------------------------------------
(* How an invocation ends.                                                 *)

ReturnedOk(c) == [kind |-> "ok", config |-> c]
ReturnedErr(parameter, e) == [kind |-> "err", parameter |-> parameter, error |-> e]
Panic(message) == [kind |-> "panic", message |-> message]
\* exit_process(status, message)
ExitProcess(status, message) == [kind |-> "exit", status |-> status, message |-> message]

Ends(o) == pc' = "start" /\ outcome' = Some(o)

\* value_m!(multi_config, name, _): the argument is fixed when first consulted
Consult(name, v) == multi_config' = multi_config @@ (name :> v)

-----------------------------------------------------------------------------
(* Mnemonics, seeds, derivation paths and addresses.  The BIP39 and BIP32  *)
(* primitives are functions of their inputs: a seed is the pair it was     *)
(* made of, a key pair is the (seed, path) it was derived from.            *)

\* --word-count: possible_values(&["12", "15", "18", "21", "24"])
WordCounts == {12, 15, 18, 21, 24}
\* --language, as named on the command line
LanguageNames == {"English", "español"}

\* Bip39::language_from_name
language_from_name(name) == IF name = "español" THEN "Spanish" ELSE "English"
\* Bip39::name_from_language
name_from_language(language) == IF language = "Spanish" THEN "Español" ELSE "English"
Languages == {language_from_name(n) : n \in LanguageNames}

\* MnemonicType::for_word_count
for_word_count(n) ==
    CASE n = 12 -> Some("Words12")
      [] n = 15 -> Some("Words15")
      [] n = 18 -> Some("Words18")
      [] n = 21 -> Some("Words21")
      [] n = 24 -> Some("Words24")
      [] OTHER -> None
\* MnemonicType::word_count
word_count(mnemonic_type) ==
    CHOOSE n \in WordCounts : for_word_count(n) = Some(mnemonic_type)

\* a Mnemonic: its type, its language and the entropy it encodes
Mnemonic(mnemonic_type, language, entropy) ==
    [mnemonic_type |-> mnemonic_type, language |-> language, entropy |-> entropy]

\* mnemonic.phrase(): the words of the language's list that encode the
\* entropy, with a valid checksum
phrase(m) ==
    [words |-> word_count(m.mnemonic_type), wordlist |-> m.language,
     entropy |-> m.entropy, checksum |-> TRUE]

\* Mnemonic::validate(phrase, language): every word is in the language's
\* list, the number of words is a legal one, the checksum is right
Mnemonic_validate(p, language) ==
    IF p.words > 0 /\ p.wordlist /= language
    THEN [err |-> "invalid word in phrase"]
    ELSE IF p.words \notin WordCounts
         THEN [err |-> "invalid number of words in phrase"]
         ELSE IF ~p.checksum
              THEN [err |-> "invalid checksum"]
              ELSE [ok |-> TRUE]

\* a parse that keeps the number of words and the language of the phrase,
\* and not what its words encode
Mnemonic_from_phrase_forgetting_entropy(p, language) ==
    IF "ok" \in DOMAIN Mnemonic_validate(p, language)
    THEN Some(Mnemonic(Unwrap(for_word_count(p.words)), language, 1))
    ELSE None

\* Mnemonic::from_phrase(phrase, language)
Mnemonic_from_phrase(p, language) ==
    IF "ok" \in DOMAIN Mnemonic_validate(p, language)
    THEN Some(Mnemonic(Unwrap(for_word_count(p.words)), language, p.entropy))
    ELSE None

\* PlainData::new(Bip39::seed(&mnemonic, &mnemonic_passphrase).as_ref())
Bip39_seed(m, passphrase) == [phrase |-> phrase(m), passphrase |-> passphrase]

DEFAULT_CONSUMING_DERIVATION_PATH == "m/44'/60'/0'/0/0"
DEFAULT_EARNING_DERIVATION_PATH == "m/44'/60'/0'/0/1"
\* the well-formed derivation paths of the model
DerivationPaths == {DEFAULT_CONSUMING_DERIVATION_PATH, DEFAULT_EARNING_DERIVATION_PATH,
                    "m/44'/60'/0'/77/78", "m/44'/60'/0'/78/77"}
\* the well-formed addresses of the model
Addresses == {"0x01234567890ABCDEFabcdef01234567890ABCDEF"}
\* values of --consuming-wallet
ConsumingWalletArgs == {None, Some("m/44'/60'/0'/77/78"), Some("bogus")}
\* values of --earning-wallet
EarningWalletArgs == {None, Some("0x01234567890ABCDEFabcdef01234567890ABCDEF"),
                      Some("m/44'/60'/0'/78/77"), Some("bogus")}

\* a derivation that makes a key pair of whatever path it is given
Bip32ECKeyPair_from_raw_of_any_path(s, path) == [ok |-> [seed |-> s, path |-> path]]

\* Bip32ECKeyPair::from_raw(seed, derivation_path)
Bip32ECKeyPair_from_raw(s, path) ==
    IF path \in DerivationPaths
    THEN [ok |-> [seed |-> s, path |-> path]]
    ELSE [err |-> "invalid derivation path"]
\* Wallet::from(keypair), displayed: the address of the key pair
Wallet_from_keypair(keypair) == [derived |-> keypair]
\* Wallet::from_str(address)
Wallet_from_str(text) ==
    IF text \in Addresses THEN [ok |-> [address |-> text]] ELSE [err |-> "invalid address"]

Left(v) == [left |-> v]
Right(v) == [right |-> v]
IsLeft(e) == "left" \in DOMAIN e

\* a message with the values formatted into it
Message(text, args) == [text |-> text, args |-> args]

-----------------------------------------------------------------------------
(* The state before the first invocation: a configuration database that    *)
(* holds no seed yet, or one that was provisioned earlier.                 *)

Init ==
    /\ persistent_config \in
           {[seed |-> None, password |-> None],
            [seed |-> Some(PreexistingSeed), password |-> Some(PreexistingPassword)]}
    /\ flow = "none"
    /\ pc = "start"
    /\ multi_config = <<>>
    /\ seed_check = None
    /\ stdout = <<>>
    /\ stdin_eof = FALSE
    /\ reads = <<>>
    /\ attempt = 1
    /\ first_entry = None
    /\ cycles = <<>>
    /\ retry_result = None
    /\ request_result = None
    /\ mnemonic_passphrase = None
    /\ consuming_derivation_path = None
    /\ earning_wallet_info = None
    /\ make_parameters = <<>>
    /\ phrase_words = None
    /\ mnemonic = None
    /\ seed = None
    /\ derivations = <<>>
    /\ config = None
    /\ writes = <<>>
    /\ outcome = None

io == <<stdout, stdin_eof, reads>>
protocol == <<attempt, first_entry, cycles, retry_result, request_result>>
wallet == <<consuming_derivation_path, earning_wallet_info, make_parameters,
            phrase_words, mnemonic, seed, derivations, config>>
process == <<flow>>

-----------------------------------------------------------------------------
(* configure: a new process is started on the same persisted               *)
(* configuration, with fresh streams and a fresh merged configuration.     *)

configure(f) ==
    /\ pc = "start"
    /\ flow' = f
    /\ pc' = "prepare"
    /\ multi_config' = <<>>
    /\ seed_check' = None
    /\ stdout' = <<>>
    /\ stdin_eof' = FALSE
    /\ reads' = <<>>
    /\ attempt' = 1
    /\ first_entry' = None
    /\ cycles' = <<>>
    /\ retry_result' = None
    /\ request_result' = None
    /\ mnemonic_passphrase' = None
    /\ consuming_derivation_path' = None
    /\ earning_wallet_info' = None
    /\ make_parameters' = <<>>
    /\ phrase_words' = None
    /\ mnemonic' = None
    /\ seed' = None
    /\ derivations' = <<>>
    /\ config' = None
    /\ writes' = <<>>
    /\ outcome' = None
    /\ UNCHANGED persistent_config

GenerateWallet_configure == configure("generate")
RecoverWallet_configure == configure("recover")

\* prepare_initialization_mode(..)? and check_for_past_initialization(..)?:
\* either both succeed, or configure returns their error
prepare_initialization_mode ==
    /\ pc = "prepare"
    /\ \E passed \in BOOLEAN :
          IF passed
          THEN pc' = "parse_args" /\ UNCHANGED outcome
          ELSE Ends(ReturnedErr("initialization", "ConfiguratorError"))
    /\ UNCHANGED <<persistent_config, process, multi_config, seed_check, io,
                   protocol, mnemonic_passphrase, wallet, writes>>

-----------------------------------------------------------------------------
(* parse_args: the provisioning guard.                                     *)

\* persistent_config.mnemonic_seed_exists(): Ok(whether a seed is stored),
\* or a storage error
mnemonic_seed_exists ==
    {[ok |-> IsSome(persistent_config.seed)]}
    \cup {[err |-> e] : e \in PersistentConfigErrors}

\* pce.into_configurator_error(parameter)
into_configurator_error(pce, parameter) == ReturnedErr(parameter, pce)

\* a guard of the generate flow that does not look at Ok(true)
GenerateWallet_guard_without_collision(exists) ==
    IF "err" \in DOMAIN exists
    THEN Some(into_configurator_error(exists.err, "seed"))
    ELSE None

\* a guard of the generate flow that ends a collision the way the recover
\* flow does
GenerateWallet_guard_exits(exists) ==
    IF "err" \in DOMAIN exists
    THEN Some(into_configurator_error(exists.err, "seed"))
    ELSE IF exists.ok
         THEN Some(ExitProcess(1, Message(GENERATE_COLLISION, <<>>)))
         ELSE None

\* the match on mnemonic_seed_exists() of the generate flow: how the guard
\* ends the invocation, or None when parse_args goes on
GenerateWallet_guard(exists) ==
    IF "err" \in DOMAIN exists
    THEN Some(into_configurator_error(exists.err, "seed"))
    ELSE IF exists.ok
         THEN Some(Panic(Message(GENERATE_COLLISION, <<>>)))
         ELSE None

\* a guard of the recover flow that does not look at Ok(true)
RecoverWallet_guard_without_collision(exists) ==
    IF "err" \in DOMAIN exists
    THEN Some(into_configurator_error(exists.err, "seed"))
    ELSE None

\* a guard of the recover flow that ends a collision the way the generate
\* flow does
RecoverWallet_guard_panics(exists) ==
    IF "err" \in DOMAIN exists
    THEN Some(into_configurator_error(exists.err, "seed"))
    ELSE IF exists.ok
         THEN Some(Panic(Message(RECOVER_COLLISION, <<>>)))
         ELSE None

\* a guard of the recover flow that takes a storage error for "no seed"
RecoverWallet_guard_ignores_error(exists) ==
    IF "err" \in DOMAIN exists
    THEN None
    ELSE IF exists.ok
         THEN Some(ExitProcess(1, Message(RECOVER_COLLISION, <<>>)))
         ELSE None

\* the match on mnemonic_seed_exists() of the recover flow
RecoverWallet_guard(exists) ==
    IF "err" \in DOMAIN exists
    THEN Some(into_configurator_error(exists.err, "seed"))
    ELSE IF exists.ok
         THEN Some(ExitProcess(1, Message(RECOVER_COLLISION, <<>>)))
         ELSE None

\* the flow's own arm: both flows share the shape of the step
guard(exists) ==
    IF flow = "generate"
    THEN GenerateWallet_guard(exists)
    ELSE RecoverWallet_guard(exists)

\* a parse_args that marks the seed as being created when the guard passes
parse_args_recording(f) ==
    /\ pc = "parse_args"
    /\ flow = f
    /\ \E exists \in mnemonic_seed_exists :
          /\ seed_check' = Some(exists)
          /\ IF IsSome(guard(exists))
             THEN Ends(Unwrap(guard(exists))) /\ UNCHANGED writes
             ELSE /\ pc' = "make_mnemonic_passphrase"
                  /\ writes' = Append(writes, "seed")
                  /\ UNCHANGED outcome
    /\ UNCHANGED <<persistent_config, process, multi_config, io, protocol,
                   mnemonic_passphrase, wallet>>

parse_args(f) ==
    /\ pc = "parse_args"
    /\ flow = f
    /\ \E exists \in mnemonic_seed_exists :
          /\ seed_check' = Some(exists)
          /\ IF IsSome(guard(exists))
             THEN Ends(Unwrap(guard(exists)))
             ELSE pc' = "make_mnemonic_passphrase" /\ UNCHANGED outcome
    /\ UNCHANGED <<persistent_config, process, multi_config, io, protocol,
                   mnemonic_passphrase, wallet, writes>>

GenerateWallet_parse_args == parse_args("generate")
RecoverWallet_parse_args == parse_args("recover")

-----------------------------------------------------------------------------
(* make_mnemonic_passphrase: the configured passphrase, or the interactive *)
(* protocol.                                                               *)

\* the prompt cycles request_password_with_retry allows
MaxAttempts == 3

Intro(f) == IF f = "generate" THEN GENERATE_INTRO ELSE RECOVER_INTRO
Prompt(f) == IF f = "generate" THEN GENERATE_PROMPT ELSE RECOVER_PROMPT

\* a configured passphrase that counts only when it is not empty
GenerateWallet_configured_passphrase_unless_empty(configured) ==
    IF configured = Some("") THEN None ELSE configured

\* match value_m!(multi_config, "mnemonic-passphrase", String): Some(mp) is
\* the result, None asks the operator
GenerateWallet_configured_passphrase(configured) == configured
RecoverWallet_configured_passphrase(configured) == configured

\* a None arm that makes a passphrase of its own
GenerateWallet_requested_passphrase_of_its_own(requested) ==
    IF IsSome(requested) THEN Unwrap(requested) ELSE "None"

\* match Self::request_mnemonic_passphrase(streams) { Some(mp) => mp,
\*                                                    None => "" }
GenerateWallet_requested_passphrase(requested) ==
    IF IsSome(requested) THEN Unwrap(requested) ELSE ""
RecoverWallet_requested_passphrase(requested) ==
    IF IsSome(requested) THEN Unwrap(requested) ELSE ""

\* the flow's own arm: both flows share the shape of the step
configured_passphrase(configured) ==
    IF flow = "generate"
    THEN GenerateWallet_configured_passphrase(configured)
    ELSE RecoverWallet_configured_passphrase(configured)

make_mnemonic_passphrase(f) ==
    /\ pc = "make_mnemonic_passphrase"
    /\ flow = f
    /\ \E configured \in {None} \cup {Some(l) : l \in Lines} :
          /\ Consult("mnemonic-passphrase", configured)
          /\ IF IsSome(configured_passphrase(configured))
             THEN /\ mnemonic_passphrase' = configured_passphrase(configured)
                  /\ pc' = "derivation_paths"
             ELSE /\ pc' = "request_mnemonic_passphrase"
                  /\ UNCHANGED mnemonic_passphrase
    /\ UNCHANGED <<persistent_config, process, seed_check, io, protocol,
                   wallet, writes, outcome>>

GenerateWallet_make_mnemonic_passphrase ==
    make_mnemonic_passphrase("generate")
RecoverWallet_make_mnemonic_passphrase ==
    make_mnemonic_passphrase("recover")

\* the flow's own arm: both flows share the shape of the step
requested_passphrase(requested) ==
    IF flow = "generate"
    THEN GenerateWallet_requested_passphrase(requested)
    ELSE RecoverWallet_requested_passphrase(requested)

\* a return that hands on what was entered first
make_mnemonic_passphrase_return_of_first_entry(f) ==
    /\ pc = "make_mnemonic_passphrase_return"
    /\ flow = f
    /\ mnemonic_passphrase' = Some(cycles[1].first)
    /\ pc' = "derivation_paths"
    /\ first_entry' = None
    /\ cycles' = <<>>
    /\ retry_result' = None
    /\ request_result' = None
    /\ UNCHANGED <<persistent_config, process, multi_config, seed_check, io,
                   attempt, wallet, writes, outcome>>

make_mnemonic_passphrase_return(f) ==
    /\ pc = "make_mnemonic_passphrase_return"
    /\ flow = f
    /\ mnemonic_passphrase' = Some(requested_passphrase(Unwrap(request_result)))
    /\ pc' = "derivation_paths"
    \* the locals of the protocol go out of scope
    /\ first_entry' = None
    /\ cycles' = <<>>
    /\ retry_result' = None
    /\ request_result' = None
    /\ UNCHANGED <<persistent_config, process, multi_config, seed_check, io,
                   attempt, wallet, writes, outcome>>

GenerateWallet_make_mnemonic_passphrase_return ==
    make_mnemonic_passphrase_return("generate")
RecoverWallet_make_mnemonic_passphrase_return ==
    make_mnemonic_passphrase_return("recover")

-----------------------------------------------------------------------------
(* request_mnemonic_passphrase: the interactive protocol.                  *)

\* the introduction is written, then request_password_with_retry is called
request_mnemonic_passphrase ==
    /\ pc = "request_mnemonic_passphrase"
    /\ stdout' = flushed_write(stdout, Intro(flow))
    /\ attempt' = 1
    /\ pc' = "request_password_with_retry"
    /\ UNCHANGED <<persistent_config, process, multi_config, seed_check,
                   stdin_eof, reads, first_entry, cycles, retry_result,
                   request_result, mnemonic_passphrase, wallet, writes, outcome>>

\* the errors request_password_with_retry returns
RETRIES_EXHAUSTED == "RetriesExhausted"
INTERNAL_ERROR == "InternalError"

\* request_password_with_retry: one more cycle starts with the prompt, or the
\* cycles are used up
request_password_with_retry ==
    /\ pc = "request_password_with_retry"
    /\ IF attempt > MaxAttempts
       THEN /\ retry_result' = Some([err |-> RETRIES_EXHAUSTED])
            /\ pc' = "request_mnemonic_passphrase_match"
            /\ UNCHANGED stdout
       ELSE /\ stdout' = flushed_write(stdout, Prompt(flow))
            /\ pc' = "read_password"
            /\ UNCHANGED retry_result
    /\ UNCHANGED <<persistent_config, process, multi_config, seed_check,
                   stdin_eof, reads, attempt, first_entry, cycles,
                   request_result, mnemonic_passphrase, wallet, writes, outcome>>

\* request_password_with_confirmation, first half: the entry is read, then
\* the confirmation prompt is written; a read that fails ends the cycles
\* with an error
read_password ==
    /\ pc = "read_password"
    /\ \E input \in LineInputs :
          /\ reads' = Read("entry", input)
          /\ stdin_eof' = (stdin_eof \/ input.got = "eof")
          /\ IF input.got = "error"
             THEN /\ retry_result' = Some([err |-> INTERNAL_ERROR])
                  /\ pc' = "request_mnemonic_passphrase_match"
                  /\ UNCHANGED <<stdout, first_entry>>
             ELSE /\ first_entry' = Some(input.text)
                  /\ stdout' = flushed_write(stdout, CONFIRM_PROMPT)
                  /\ pc' = "read_confirmation"
                  /\ UNCHANGED retry_result
    /\ UNCHANGED <<persistent_config, process, multi_config, seed_check,
                   attempt, cycles, request_result,
                   mnemonic_passphrase, wallet, writes, outcome>>

\* request_password_with_confirmation, second half: the confirmation is read
\* and compared; on a mismatch the mismatch message is written and
\* request_password_with_retry goes on to its next cycle
read_confirmation ==
    /\ pc = "read_confirmation"
    /\ \E input \in LineInputs :
          /\ reads' = Read("confirmation", input)
          /\ stdin_eof' = (stdin_eof \/ input.got = "eof")
          /\ CASE input.got = "error" ->
                     /\ retry_result' = Some([err |-> INTERNAL_ERROR])
                     /\ pc' = "request_mnemonic_passphrase_match"
                     /\ UNCHANGED <<stdout, attempt, cycles>>
               [] input.got /= "error" /\ input.text = Unwrap(first_entry) ->
                     /\ cycles' = Append(cycles, [first |-> Unwrap(first_entry),
                                                  confirmation |-> input.text])
                     /\ retry_result' = Some([ok |-> input.text])
                     /\ pc' = "request_mnemonic_passphrase_match"
                     /\ UNCHANGED <<stdout, attempt>>
               [] OTHER ->
                     /\ cycles' = Append(cycles, [first |-> Unwrap(first_entry),
                                                  confirmation |-> input.text])
                     /\ stdout' =
                           IF attempt < MaxAttempts
                           THEN flushed_write(flushed_write(stdout, MISMATCH_MSG), TRY_AGAIN)
                           ELSE flushed_write(stdout, MISMATCH_MSG)
                     /\ attempt' = attempt + 1
                     /\ pc' = "request_password_with_retry"
                     /\ UNCHANGED retry_result
    /\ UNCHANGED <<persistent_config, process, multi_config, seed_check,
                   first_entry, request_result, mnemonic_passphrase, wallet,
                   writes, outcome>>

\* a match that takes exhausted retries for "no passphrase"
GenerateWallet_request_match_swallows_error(result) ==
    IF "err" \in DOMAIN result
    THEN [then |-> "return", value |-> None]
    ELSE IF result.ok = ""
         THEN [then |-> "warn"]
         ELSE [then |-> "return", value |-> Some(result.ok)]

\* a match that returns None for every passphrase
GenerateWallet_request_match_drops_value(result) ==
    IF "err" \in DOMAIN result
    THEN [then |-> "panic", message |-> Message(result.err, <<>>)]
    ELSE IF result.ok = ""
         THEN [then |-> "warn"]
         ELSE [then |-> "return", value |-> None]

\* the match on the result of request_password_with_retry, generate flow
GenerateWallet_request_match(result) ==
    IF "err" \in DOMAIN result
    THEN [then |-> "panic", message |-> Message(result.err, <<>>)]
    ELSE IF result.ok = ""
         THEN [then |-> "warn"]
         ELSE [then |-> "return", value |-> Some(result.ok)]

\* a match that warns whatever the passphrase is
RecoverWallet_request_match_always_warns(result) ==
    IF "err" \in DOMAIN result
    THEN [then |-> "panic", message |-> Message(result.err, <<>>)]
    ELSE [then |-> "warn"]

\* a match that takes a failed read for "no passphrase" and panics only
\* when the retries are exhausted
RecoverWallet_request_match_ignores_read_failure(result) ==
    IF "err" \in DOMAIN result
    THEN IF result.err = INTERNAL_ERROR
         THEN [then |-> "return", value |-> None]
         ELSE [then |-> "panic", message |-> Message(result.err, <<>>)]
    ELSE IF result.ok = ""
         THEN [then |-> "warn"]
         ELSE [then |-> "return", value |-> Some(result.ok)]

\* a match that takes the empty passphrase for a failure
RecoverWallet_request_match_refusing_empty(result) ==
    IF "err" \in DOMAIN result
    THEN [then |-> "panic", message |-> Message(result.err, <<>>)]
    ELSE IF result.ok = ""
         THEN [then |-> "panic", message |-> Message(INTERNAL_ERROR, <<>>)]
         ELSE [then |-> "return", value |-> Some(result.ok)]

\* the match on the result of request_password_with_retry, recover flow
RecoverWallet_request_match(result) ==
    IF "err" \in DOMAIN result
    THEN [then |-> "panic", message |-> Message(result.err, <<>>)]
    ELSE IF result.ok = ""
         THEN [then |-> "warn"]
         ELSE [then |-> "return", value |-> Some(result.ok)]

\* the flow's own arm: both flows share the shape of the step
request_match(result) ==
    IF flow = "generate"
    THEN GenerateWallet_request_match(result)
    ELSE RecoverWallet_request_match(result)

request_mnemonic_passphrase_match(f) ==
    /\ pc = "request_mnemonic_passphrase_match"
    /\ flow = f
    /\ LET m == request_match(Unwrap(retry_result)) IN
          CASE m.then = "panic" ->
                  /\ Ends(Panic(m.message))
                  /\ UNCHANGED <<stdout, request_result>>
            [] m.then = "warn" ->
                  /\ stdout' = flushed_write(stdout, NO_PASSPHRASE_WARNING)
                  /\ pc' = "acknowledge"
                  /\ UNCHANGED <<request_result, outcome>>
            [] m.then = "return" ->
                  /\ request_result' = Some(m.value)
                  /\ pc' = "make_mnemonic_passphrase_return"
                  /\ UNCHANGED <<stdout, outcome>>
    /\ UNCHANGED <<persistent_config, process, multi_config, seed_check,
                   stdin_eof, reads, attempt, first_entry, cycles, retry_result,
                   mnemonic_passphrase, wallet, writes>>

GenerateWallet_request_mnemonic_passphrase_match ==
    request_mnemonic_passphrase_match("generate")
RecoverWallet_request_mnemonic_passphrase_match ==
    request_mnemonic_passphrase_match("recover")

\* the end of the protocol without the read that follows the warning
acknowledge_without_read ==
    /\ pc = "acknowledge"
    /\ request_result' = Some(None)
    /\ pc' = "make_mnemonic_passphrase_return"
    /\ UNCHANGED <<persistent_config, process, multi_config, seed_check,
                   io, attempt, first_entry, cycles, retry_result,
                   mnemonic_passphrase, wallet, writes, outcome>>

\* a warning that is acknowledged by two reads
acknowledge_reading_twice ==
    /\ pc = "acknowledge"
    /\ \E input \in ByteInputs :
          /\ reads' = Append(Read("acknowledgment", input),
                             [what |-> "acknowledgment", got |-> input.got])
          /\ stdin_eof' = (stdin_eof \/ input.got = "eof")
    /\ request_result' = Some(None)
    /\ pc' = "make_mnemonic_passphrase_return"
    /\ UNCHANGED <<persistent_config, process, multi_config, seed_check,
                   stdout, attempt, first_entry, cycles, retry_result,
                   mnemonic_passphrase, wallet, writes, outcome>>

\* let _ = streams.stdin.read(&mut [0u8]).is_ok(); None
acknowledge ==
    /\ pc = "acknowledge"
    /\ \E input \in ByteInputs :
          /\ reads' = Read("acknowledgment", input)
          /\ stdin_eof' = (stdin_eof \/ input.got = "eof")
    /\ request_result' = Some(None)
    /\ pc' = "make_mnemonic_passphrase_return"
    /\ UNCHANGED <<persistent_config, process, multi_config, seed_check,
                   stdout, attempt, first_entry, cycles, retry_result,
                   mnemonic_passphrase, wallet, writes, outcome>>

-----------------------------------------------------------------------------
(* make_wallet_creation_config, after the passphrase: the derivation path  *)
(* of the consuming wallet and the address or path of the earning wallet.  *)

\* --earning-wallet is an address when it parses as one, else a path
earning_wallet_info_from(configured) ==
    IF IsSome(configured)
    THEN IF "ok" \in DOMAIN Wallet_from_str(Unwrap(configured))
         THEN Left(Unwrap(configured))
         ELSE Right(Unwrap(configured))
    ELSE Right(DEFAULT_EARNING_DERIVATION_PATH)

derivation_paths ==
    /\ pc = "derivation_paths"
    /\ \E consuming \in ConsumingWalletArgs, earning \in EarningWalletArgs :
          /\ multi_config' = multi_config @@ ("consuming-wallet" :> consuming)
                                          @@ ("earning-wallet" :> earning)
          /\ consuming_derivation_path' =
                 Some(IF IsSome(consuming) THEN Unwrap(consuming)
                      ELSE DEFAULT_CONSUMING_DERIVATION_PATH)
          /\ earning_wallet_info' = Some(earning_wallet_info_from(earning))
    /\ pc' = "make_mnemonic_seed"
    /\ UNCHANGED <<persistent_config, process, seed_check, io, protocol,
                   mnemonic_passphrase, make_parameters, phrase_words, mnemonic,
                   seed, derivations, config, writes, outcome>>

-----------------------------------------------------------------------------
(* Generate flow, make_mnemonic_seed: the mnemonic factory, the seed, the  *)
(* report.                                                                 *)

\* a seed made of the mnemonic alone
GenerateWallet_seed_without_passphrase(m, passphrase) == Bip39_seed(m, "")

\* the seed the generate flow makes of the mnemonic and the passphrase
GenerateWallet_seed(m, passphrase) == Bip39_seed(m, passphrase)

\* a make_mnemonic_seed that asks the factory for a mnemonic of twelve words
\* first, and then for the one it uses
GenerateWallet_make_mnemonic_seed_making_twice ==
    /\ pc = "make_mnemonic_seed"
    /\ flow = "generate"
    /\ \E name \in LanguageNames, n \in WordCounts, entropy \in 1..MaxEntropy :
          LET language == language_from_name(name)
              mnemonic_type == Unwrap(for_word_count(n))
              made == Mnemonic(mnemonic_type, language, entropy)
          IN  /\ multi_config' = multi_config @@ ("language" :> Some(name))
                                              @@ ("word-count" :> Some(n))
              /\ make_parameters' = make_parameters
                                      \o << <<"Words12", language>>,
                                            <<mnemonic_type, language>> >>
              /\ mnemonic' = Some(made)
              /\ seed' = Some(GenerateWallet_seed(made, Unwrap(mnemonic_passphrase)))
    /\ pc' = "report_wallet_information"
    /\ UNCHANGED <<persistent_config, process, seed_check, io, protocol,
                   mnemonic_passphrase, consuming_derivation_path,
                   earning_wallet_info, phrase_words, derivations, config,
                   writes, outcome>>

\* a make_mnemonic_seed that returns the seed without reporting
GenerateWallet_make_mnemonic_seed_without_report ==
    /\ pc = "make_mnemonic_seed"
    /\ flow = "generate"
    /\ \E name \in LanguageNames, n \in WordCounts, entropy \in 1..MaxEntropy :
          LET language == language_from_name(name)
              mnemonic_type == Unwrap(for_word_count(n))
              made == Mnemonic(mnemonic_type, language, entropy)
          IN  /\ multi_config' = multi_config @@ ("language" :> Some(name))
                                              @@ ("word-count" :> Some(n))
              /\ make_parameters' = Append(make_parameters, <<mnemonic_type, language>>)
              /\ mnemonic' = Some(made)
              /\ seed' = Some(GenerateWallet_seed(made, Unwrap(mnemonic_passphrase)))
    /\ pc' = "db_password"
    /\ UNCHANGED <<persistent_config, process, seed_check, io, protocol,
                   mnemonic_passphrase, consuming_derivation_path,
                   earning_wallet_info, phrase_words, derivations, config,
                   writes, outcome>>

GenerateWallet_make_mnemonic_seed ==
    /\ pc = "make_mnemonic_seed"
    /\ flow = "generate"
    /\ \E name \in LanguageNames, n \in WordCounts, entropy \in 1..MaxEntropy :
          LET language == language_from_name(name)
              mnemonic_type == Unwrap(for_word_count(n))
              made == Mnemonic(mnemonic_type, language, entropy)
          IN  /\ multi_config' = multi_config @@ ("language" :> Some(name))
                                              @@ ("word-count" :> Some(n))
              /\ make_parameters' = Append(make_parameters, <<mnemonic_type, language>>)
              /\ mnemonic' = Some(made)
              /\ seed' = Some(GenerateWallet_seed(made, Unwrap(mnemonic_passphrase)))
    /\ pc' = "report_wallet_information"
    /\ UNCHANGED <<persistent_config, process, seed_check, io, protocol,
                   mnemonic_passphrase, consuming_derivation_path,
                   earning_wallet_info, phrase_words, derivations, config,
                   writes, outcome>>

REPORT_INSTRUCTIONS == "\n\nRecord the following mnemonic recovery phrase in the sequence provided\nand keep it secret! You cannot recover your wallet without these words\nplus your mnemonic passphrase if you provided one.\n\n"
CONSUMING_PANIC == "Couldn't make key pair from consuming derivation path '{}'"
EARNING_PANIC == "Couldn't make key pair from earning derivation path '{}'"
ADDRESS_PANIC == "Address doesn't work anymore"

\* a report whose panic names the seed it could not derive from
report_wallet_information_naming_seed ==
    /\ pc = "report_wallet_information"
    /\ LET consuming_keypair ==
               Bip32ECKeyPair_from_raw(Unwrap(seed), Unwrap(consuming_derivation_path))
       IN  IF "err" \in DOMAIN consuming_keypair
           THEN /\ Ends(Panic(Message(CONSUMING_PANIC,
                                      <<Unwrap(consuming_derivation_path), Unwrap(seed)>>)))
                /\ UNCHANGED <<multi_config, derivations>>
           ELSE /\ derivations' = Append(derivations, consuming_keypair.ok)
                /\ \E json \in BOOLEAN :
                      /\ Consult("json", json)
                      /\ pc' = IF json THEN "report_json" ELSE "report_text"
                /\ UNCHANGED outcome
    /\ UNCHANGED <<persistent_config, process, seed_check, io, protocol,
                   mnemonic_passphrase, consuming_derivation_path,
                   earning_wallet_info, make_parameters, phrase_words, mnemonic,
                   seed, config, writes>>

\* report_wallet_information, to the choice of the format: the key pair of
\* the consuming wallet is derived, then the json flag decides
report_wallet_information ==
    /\ pc = "report_wallet_information"
    /\ LET consuming_keypair ==
               Bip32ECKeyPair_from_raw(Unwrap(seed), Unwrap(consuming_derivation_path))
       IN  IF "err" \in DOMAIN consuming_keypair
           THEN /\ Ends(Panic(Message(CONSUMING_PANIC, <<Unwrap(consuming_derivation_path)>>)))
                /\ UNCHANGED <<multi_config, derivations>>
           ELSE /\ derivations' = Append(derivations, consuming_keypair.ok)
                /\ \E json \in BOOLEAN :
                      /\ Consult("json", json)
                      /\ pc' = IF json THEN "report_json" ELSE "report_text"
                /\ UNCHANGED outcome
    /\ UNCHANGED <<persistent_config, process, seed_check, io, protocol,
                   mnemonic_passphrase, consuming_derivation_path,
                   earning_wallet_info, make_parameters, phrase_words, mnemonic,
                   seed, config, writes>>

\* a report that derives a key pair for the earning wallet also when the
\* address was supplied
report_earning_wallet_deriving_always(info, s) ==
    IF IsLeft(info)
    THEN IF "ok" \in DOMAIN Wallet_from_str(info.left)
         THEN [ok |-> [address |-> Wallet_from_str(info.left).ok],
               derived |-> <<Bip32ECKeyPair_from_raw(s, DEFAULT_EARNING_DERIVATION_PATH).ok>>]
         ELSE [err |-> Message(ADDRESS_PANIC, <<>>)]
    ELSE IF "ok" \in DOMAIN Bip32ECKeyPair_from_raw(s, info.right)
         THEN [ok |-> [derivationPath |-> info.right,
                       address |-> Wallet_from_keypair(Bip32ECKeyPair_from_raw(s, info.right).ok)],
               derived |-> <<Bip32ECKeyPair_from_raw(s, info.right).ok>>]
         ELSE [err |-> Message(EARNING_PANIC, <<info.right>>)]

\* a report that derives the earning wallet from the mnemonic alone
report_earning_wallet_without_passphrase(info, s) ==
    LET unprotected == [s EXCEPT !.passphrase = ""] IN
    IF IsLeft(info)
    THEN IF "ok" \in DOMAIN Wallet_from_str(info.left)
         THEN [ok |-> [address |-> Wallet_from_str(info.left).ok], derived |-> <<>>]
         ELSE [err |-> Message(ADDRESS_PANIC, <<>>)]
    ELSE IF "ok" \in DOMAIN Bip32ECKeyPair_from_raw(unprotected, info.right)
         THEN [ok |-> [derivationPath |-> info.right,
                       address |-> Wallet_from_keypair(
                                       Bip32ECKeyPair_from_raw(unprotected, info.right).ok)],
               derived |-> <<Bip32ECKeyPair_from_raw(unprotected, info.right).ok>>]
         ELSE [err |-> Message(EARNING_PANIC, <<info.right>>)]

\* a report that labels a supplied address with the default earning path
report_earning_wallet_with_default_path(info, s) ==
    IF IsLeft(info)
    THEN IF "ok" \in DOMAIN Wallet_from_str(info.left)
         THEN [ok |-> [derivationPath |-> DEFAULT_EARNING_DERIVATION_PATH,
                       address |-> Wallet_from_str(info.left).ok],
               derived |-> <<>>]
         ELSE [err |-> Message(ADDRESS_PANIC, <<>>)]
    ELSE IF "ok" \in DOMAIN Bip32ECKeyPair_from_raw(s, info.right)
         THEN [ok |-> [derivationPath |-> info.right,
                       address |-> Wallet_from_keypair(Bip32ECKeyPair_from_raw(s, info.right).ok)],
               derived |-> <<Bip32ECKeyPair_from_raw(s, info.right).ok>>]
         ELSE [err |-> Message(EARNING_PANIC, <<info.right>>)]

\* the earning wallet of the report: [ok |-> the fields shown] and the key
\* pair derived for it (if any), or [err |-> the panic]
report_earning_wallet(info, s) ==
    IF IsLeft(info)
    THEN IF "ok" \in DOMAIN Wallet_from_str(info.left)
         THEN [ok |-> [address |-> Wallet_from_str(info.left).ok], derived |-> <<>>]
         ELSE [err |-> Message(ADDRESS_PANIC, <<>>)]
    ELSE IF "ok" \in DOMAIN Bip32ECKeyPair_from_raw(s, info.right)
         THEN [ok |-> [derivationPath |-> info.right,
                       address |-> Wallet_from_keypair(Bip32ECKeyPair_from_raw(s, info.right).ok)],
               derived |-> <<Bip32ECKeyPair_from_raw(s, info.right).ok>>]
         ELSE [err |-> Message(EARNING_PANIC, <<info.right>>)]

ConsumingWalletShown ==
    [derivationPath |-> Unwrap(consuming_derivation_path),
     address |-> Wallet_from_keypair(
                     Bip32ECKeyPair_from_raw(Unwrap(seed), Unwrap(consuming_derivation_path)).ok)]

\* a structured report that is preceded by the instructions of the
\* human-readable one
report_json_with_instructions ==
    /\ pc = "report_json"
    /\ LET earning == report_earning_wallet(Unwrap(earning_wallet_info), Unwrap(seed))
       IN  IF "err" \in DOMAIN earning
           THEN /\ Ends(Panic(earning.err))
                /\ UNCHANGED <<stdout, derivations>>
           ELSE /\ derivations' = derivations \o earning.derived
                /\ stdout' = Append(flushed_write(stdout, REPORT_INSTRUCTIONS),
                       [text |-> "json",
                        mnemonicPhrase |-> phrase(Unwrap(mnemonic)),
                        consumingWallet |-> ConsumingWalletShown,
                        earningWallet |-> earning.ok])
                /\ pc' = "db_password"
                /\ UNCHANGED outcome
    /\ UNCHANGED <<persistent_config, process, multi_config, seed_check,
                   stdin_eof, reads, protocol, mnemonic_passphrase,
                   consuming_derivation_path, earning_wallet_info,
                   make_parameters, phrase_words, mnemonic, seed, config, writes>>

\* if json { .. }: the body of the earning wallet is made, then the whole
\* record is written at once
report_json ==
    /\ pc = "report_json"
    /\ LET earning == report_earning_wallet(Unwrap(earning_wallet_info), Unwrap(seed))
       IN  IF "err" \in DOMAIN earning
           THEN /\ Ends(Panic(earning.err))
                /\ UNCHANGED <<stdout, derivations>>
           ELSE /\ derivations' = derivations \o earning.derived
                /\ stdout' = Append(stdout,
                       [text |-> "json",
                        mnemonicPhrase |-> phrase(Unwrap(mnemonic)),
                        consumingWallet |-> ConsumingWalletShown,
                        earningWallet |-> earning.ok])
                /\ pc' = "db_password"
                /\ UNCHANGED outcome
    /\ UNCHANGED <<persistent_config, process, multi_config, seed_check,
                   stdin_eof, reads, protocol, mnemonic_passphrase,
                   consuming_derivation_path, earning_wallet_info,
                   make_parameters, phrase_words, mnemonic, seed, config, writes>>

\* a human-readable report that waits for a key press before it shows the
\* phrase
report_text_pausing ==
    /\ pc = "report_text"
    /\ stdout' = stdout \o
           << [text |-> REPORT_INSTRUCTIONS],
              [text |-> "{}", mnemonicPhrase |-> phrase(Unwrap(mnemonic))],
              [text |-> "\n\n"],
              [text |-> "Consuming Wallet ({}): {}\n",
               consumingWallet |-> ConsumingWalletShown] >>
    /\ \E input \in ByteInputs :
          /\ reads' = Read("acknowledgment", input)
          /\ stdin_eof' = (stdin_eof \/ input.got = "eof")
    /\ pc' = "report_text_earning"
    /\ UNCHANGED <<persistent_config, process, multi_config, seed_check,
                   protocol, mnemonic_passphrase, wallet, writes, outcome>>

\* a report that shows the wallet line before the phrase
report_text_wallet_first ==
    /\ pc = "report_text"
    /\ stdout' = stdout \o
           << [text |-> REPORT_INSTRUCTIONS],
              [text |-> "Consuming Wallet ({}): {}\n",
               consumingWallet |-> ConsumingWalletShown],
              [text |-> "{}", mnemonicPhrase |-> phrase(Unwrap(mnemonic))],
              [text |-> "\n\n"] >>
    /\ pc' = "report_text_earning"
    /\ UNCHANGED <<persistent_config, process, multi_config, seed_check,
                   stdin_eof, reads, protocol, mnemonic_passphrase, wallet,
                   writes, outcome>>

\* else { .. }, to the line of the consuming wallet
report_text ==
    /\ pc = "report_text"
    /\ stdout' = stdout \o
           << [text |-> REPORT_INSTRUCTIONS],
              [text |-> "{}", mnemonicPhrase |-> phrase(Unwrap(mnemonic))],
              [text |-> "\n\n"],
              [text |-> "Consuming Wallet ({}): {}\n",
               consumingWallet |-> ConsumingWalletShown] >>
    /\ pc' = "report_text_earning"
    /\ UNCHANGED <<persistent_config, process, multi_config, seed_check,
                   stdin_eof, reads, protocol, mnemonic_passphrase, wallet,
                   writes, outcome>>

\* else { .. }, the match on earning_wallet_info
report_text_earning ==
    /\ pc = "report_text_earning"
    /\ LET earning == report_earning_wallet(Unwrap(earning_wallet_info), Unwrap(seed))
       IN  IF "err" \in DOMAIN earning
           THEN /\ Ends(Panic(earning.err))
                /\ UNCHANGED <<stdout, derivations>>
           ELSE /\ derivations' = derivations \o earning.derived
                /\ stdout' = Append(stdout,
                       [text |-> IF IsLeft(Unwrap(earning_wallet_info))
                                 THEN "  Earning Wallet: {}\n"
                                 ELSE "  Earning Wallet ({}): {}\n",
                        earningWallet |-> earning.ok])
                /\ pc' = "db_password"
                /\ UNCHANGED outcome
    /\ UNCHANGED <<persistent_config, process, multi_config, seed_check,
                   stdin_eof, reads, protocol, mnemonic_passphrase,
                   consuming_derivation_path, earning_wallet_info,
                   make_parameters, phrase_words, mnemonic, seed, config, writes>>

-----------------------------------------------------------------------------
(* Recover flow, make_mnemonic_seed: the words from the configuration or   *)
(* from the operator, their validation, the seed.                          *)

\* phrases a mnemonic of the model has
ValidPhrases ==
    {phrase(Mnemonic(Unwrap(for_word_count(n)), l, e)) :
        n \in WordCounts, l \in Languages, e \in 1..MaxEntropy}
\* phrases no mnemonic has: a word of no list, a wrong checksum, a number
\* of words that is not a legal one
InvalidPhrases ==
    {[words |-> 12, wordlist |-> "none", entropy |-> 1, checksum |-> FALSE],
     [words |-> 24, wordlist |-> "English", entropy |-> 1, checksum |-> FALSE],
     [words |-> 13, wordlist |-> "English", entropy |-> 1, checksum |-> FALSE]}
\* --mnemonic: min_values(12), max_values(24); no value gives the empty list
MnemonicArgs == {None} \cup {Some(p) : p \in ValidPhrases \cup InvalidPhrases}
\* what the operator can type: any of the above, a few words, or nothing
NoWords == [words |-> 0, wordlist |-> "none", entropy |-> 1, checksum |-> FALSE]
TypedPhrases ==
    ValidPhrases \cup InvalidPhrases
    \cup {NoWords, [words |-> 3, wordlist |-> "English", entropy |-> 1, checksum |-> FALSE]}

REQUEST_PHRASE_INSTRUCTIONS == "\nPlease provide your wallet's mnemonic phrase.\nIt must be 12, 15, 18, 21, or 24 words long.\n"
REQUEST_PHRASE_PROMPT == "Mnemonic phrase: "
NOT_VALID == "\"{}\" is not valid for {} ({})"
NON_UTF8_PANIC == "Mnemonic may not contain non-UTF-8 characters"

\* streams.stdin.read(&mut buf) of request_mnemonic_phrase: the text typed,
\* nothing at end of input, bytes that are no UTF-8, or an error
PhraseInputs ==
    IF stdin_eof
    THEN {[got |-> "eof", words |-> NoWords], [got |-> "error"]}
    ELSE {[got |-> "text", words |-> p] : p \in TypedPhrases}
         \cup {[got |-> "eof", words |-> NoWords], [got |-> "non-utf8"], [got |-> "error"]}

RecoverWallet_make_mnemonic_seed ==
    /\ pc = "make_mnemonic_seed"
    /\ flow = "recover"
    /\ \E name \in LanguageNames : Consult("language", Some(name))
    /\ pc' = "get_mnemonic"
    /\ UNCHANGED <<persistent_config, process, seed_check, io, protocol,
                   mnemonic_passphrase, wallet, writes, outcome>>

\* a get_mnemonic that asks the operator for the phrase whatever it was given
get_mnemonic_always_prompting ==
    /\ pc = "get_mnemonic"
    /\ \E arg_phrase_words \in MnemonicArgs :
          /\ Consult("mnemonic", arg_phrase_words)
          /\ pc' = "request_mnemonic_phrase"
          /\ phrase_words' = arg_phrase_words
    /\ UNCHANGED <<persistent_config, process, seed_check, io, protocol,
                   mnemonic_passphrase, consuming_derivation_path,
                   earning_wallet_info, make_parameters, mnemonic, seed,
                   derivations, config, writes, outcome>>

\* get_mnemonic, the choice of the words
get_mnemonic ==
    /\ pc = "get_mnemonic"
    /\ \E arg_phrase_words \in MnemonicArgs :
          /\ Consult("mnemonic", arg_phrase_words)
          /\ IF arg_phrase_words = None
             THEN pc' = "request_mnemonic_phrase" /\ UNCHANGED phrase_words
             ELSE pc' = "validate_mnemonic_words" /\ phrase_words' = arg_phrase_words
    /\ UNCHANGED <<persistent_config, process, seed_check, io, protocol,
                   mnemonic_passphrase, consuming_derivation_path,
                   earning_wallet_info, make_parameters, mnemonic, seed,
                   derivations, config, writes, outcome>>

request_mnemonic_phrase ==
    /\ pc = "request_mnemonic_phrase"
    /\ stdout' = flushed_write(flushed_write(stdout, REQUEST_PHRASE_INSTRUCTIONS),
                               REQUEST_PHRASE_PROMPT)
    /\ \E input \in PhraseInputs :
          /\ reads' = Read("phrase", input)
          /\ stdin_eof' = (stdin_eof \/ input.got = "eof")
          /\ CASE input.got = "error" ->
                     /\ Ends(Panic(Message("Err", <<>>)))
                     /\ UNCHANGED phrase_words
               [] input.got = "non-utf8" ->
                     /\ Ends(Panic(Message(NON_UTF8_PANIC, <<>>)))
                     /\ UNCHANGED phrase_words
               [] OTHER ->
                     /\ phrase_words' = Some(input.words)
                     /\ pc' = "validate_mnemonic_words"
                     /\ UNCHANGED outcome
    /\ UNCHANGED <<persistent_config, process, multi_config, seed_check,
                   protocol, mnemonic_passphrase, consuming_derivation_path,
                   earning_wallet_info, make_parameters, mnemonic, seed,
                   derivations, config, writes>>

\* a validation whose message does not name the phrase
validate_mnemonic_words_without_phrase(p, language) ==
    IF "ok" \in DOMAIN Mnemonic_validate(p, language)
    THEN [ok |-> TRUE]
    ELSE [err |-> Message(NOT_VALID,
                     <<name_from_language(language), Mnemonic_validate(p, language).err>>)]

\* Validators::validate_mnemonic_words
validate_mnemonic_words(p, language) ==
    IF "ok" \in DOMAIN Mnemonic_validate(p, language)
    THEN [ok |-> TRUE]
    ELSE [err |-> Message(NOT_VALID,
                     <<p, name_from_language(language), Mnemonic_validate(p, language).err>>)]

\* a seed made of the mnemonic alone
RecoverWallet_seed_without_passphrase(m, passphrase) == Bip39_seed(m, "")

\* the seed the recover flow makes of the mnemonic and the passphrase
RecoverWallet_seed(m, passphrase) == Bip39_seed(m, passphrase)

\* a recover flow that shows the phrase it accepted
get_mnemonic_validate_echoing ==
    /\ pc = "validate_mnemonic_words"
    /\ LET language == language_from_name(Unwrap(multi_config["language"]))
           valid == validate_mnemonic_words(Unwrap(phrase_words), language)
           m == Mnemonic_from_phrase(Unwrap(phrase_words), language)
       IN  IF "err" \in DOMAIN valid
           THEN /\ Ends(ExitProcess(1, valid.err))
                /\ UNCHANGED <<mnemonic, seed, stdout>>
           ELSE /\ mnemonic' = m
                /\ seed' = Some(RecoverWallet_seed(Unwrap(m), Unwrap(mnemonic_passphrase)))
                /\ stdout' = Append(stdout, [text |-> "{}", mnemonicPhrase |-> phrase(Unwrap(m))])
                /\ pc' = "db_password"
                /\ UNCHANGED outcome
    /\ UNCHANGED <<persistent_config, process, multi_config, seed_check,
                   stdin_eof, reads, protocol, mnemonic_passphrase,
                   consuming_derivation_path, earning_wallet_info,
                   make_parameters, phrase_words, derivations, config, writes>>

\* a get_mnemonic that hands a failed validation back as a configuration
\* error
get_mnemonic_validate_returning_error ==
    /\ pc = "validate_mnemonic_words"
    /\ LET language == language_from_name(Unwrap(multi_config["language"]))
           valid == validate_mnemonic_words(Unwrap(phrase_words), language)
           m == Mnemonic_from_phrase(Unwrap(phrase_words), language)
       IN  IF "err" \in DOMAIN valid
           THEN /\ Ends(ReturnedErr("mnemonic", valid.err))
                /\ UNCHANGED <<mnemonic, seed>>
           ELSE /\ mnemonic' = m
                /\ seed' = Some(RecoverWallet_seed(Unwrap(m), Unwrap(mnemonic_passphrase)))
                /\ pc' = "db_password"
                /\ UNCHANGED outcome
    /\ UNCHANGED <<persistent_config, process, multi_config, seed_check, io,
                   protocol, mnemonic_passphrase, consuming_derivation_path,
                   earning_wallet_info, make_parameters, phrase_words,
                   derivations, config, writes>>

\* a recover flow that records the seed as soon as it is made
get_mnemonic_validate_recording ==
    /\ pc = "validate_mnemonic_words"
    /\ LET language == language_from_name(Unwrap(multi_config["language"]))
           valid == validate_mnemonic_words(Unwrap(phrase_words), language)
           m == Mnemonic_from_phrase(Unwrap(phrase_words), language)
       IN  IF "err" \in DOMAIN valid
           THEN /\ Ends(ExitProcess(1, valid.err))
                /\ UNCHANGED <<mnemonic, seed, persistent_config, writes>>
           ELSE /\ mnemonic' = m
                /\ seed' = Some(RecoverWallet_seed(Unwrap(m), Unwrap(mnemonic_passphrase)))
                /\ persistent_config' =
                       [persistent_config EXCEPT
                          !.seed = Some(RecoverWallet_seed(Unwrap(m),
                                                           Unwrap(mnemonic_passphrase)))]
                /\ writes' = Append(writes, "seed")
                /\ pc' = "db_password"
                /\ UNCHANGED outcome
    /\ UNCHANGED <<process, multi_config, seed_check, io,
                   protocol, mnemonic_passphrase, consuming_derivation_path,
                   earning_wallet_info, make_parameters, phrase_words,
                   derivations, config>>

\* get_mnemonic, from the validation on, and the seed of make_mnemonic_seed
get_mnemonic_validate ==
    /\ pc = "validate_mnemonic_words"
    /\ LET language == language_from_name(Unwrap(multi_config["language"]))
           valid == validate_mnemonic_words(Unwrap(phrase_words), language)
           m == Mnemonic_from_phrase(Unwrap(phrase_words), language)
       IN  IF "err" \in DOMAIN valid
           THEN /\ Ends(ExitProcess(1, valid.err))
                /\ UNCHANGED <<mnemonic, seed>>
           ELSE /\ mnemonic' = m
                /\ seed' = Some(RecoverWallet_seed(Unwrap(m), Unwrap(mnemonic_passphrase)))
                /\ pc' = "db_password"
                /\ UNCHANGED outcome
    /\ UNCHANGED <<persistent_config, process, multi_config, seed_check, io,
                   protocol, mnemonic_passphrase, consuming_derivation_path,
                   earning_wallet_info, make_parameters, phrase_words,
                   derivations, config, writes>>

-----------------------------------------------------------------------------
(* make_wallet_creation_config, after the seed: the database password and  *)
(* the assembly of the WalletCreationConfig; then the writes of configure. *)

\* the address of the earning wallet in the result
earning_wallet_address(info, s) ==
    IF IsLeft(info)
    THEN [ok |-> [address |-> info.left], derived |-> <<>>]
    ELSE IF "ok" \in DOMAIN Bip32ECKeyPair_from_raw(s, info.right)
         THEN [ok |-> Wallet_from_keypair(Bip32ECKeyPair_from_raw(s, info.right).ok),
               derived |-> <<Bip32ECKeyPair_from_raw(s, info.right).ok>>]
         ELSE [err |-> Message(EARNING_PANIC, <<info.right>>)]

make_wallet_creation_config ==
    /\ pc = "db_password"
    /\ \E db_password \in DbPasswords :
          LET earning == earning_wallet_address(Unwrap(earning_wallet_info), Unwrap(seed)) IN
          /\ Consult("db-password", Some(db_password))
          /\ IF "err" \in DOMAIN earning
             THEN /\ Ends(Panic(earning.err))
                  /\ UNCHANGED <<derivations, config>>
             ELSE /\ derivations' = derivations \o earning.derived
                  /\ config' = Some(
                        [earning_wallet_address_opt |-> Some(earning.ok),
                         derivation_path_info_opt |-> Some(
                            [mnemonic_seed |-> Unwrap(seed),
                             db_password |-> db_password,
                             consuming_derivation_path_opt |-> consuming_derivation_path])])
                  /\ pc' = "update_db_password"
                  /\ UNCHANGED outcome
    /\ UNCHANGED <<persistent_config, process, seed_check, io, protocol,
                   mnemonic_passphrase, consuming_derivation_path,
                   earning_wallet_info, make_parameters, phrase_words, mnemonic,
                   seed, writes>>

\* update_db_password(&config, persistent_config)?
update_db_password ==
    /\ pc = "update_db_password"
    /\ \E stored \in BOOLEAN :
          IF stored
          THEN /\ persistent_config' =
                     [persistent_config EXCEPT
                        !.password = Some(Unwrap(Unwrap(config).derivation_path_info_opt).db_password)]
               /\ writes' = Append(writes, "db_password")
               /\ pc' = "create_wallet"
               /\ UNCHANGED outcome
          ELSE /\ Ends(ReturnedErr("db-password", "DatabaseError"))
               /\ UNCHANGED <<persistent_config, writes>>
    /\ UNCHANGED <<process, multi_config, seed_check, io, protocol,
                   mnemonic_passphrase, wallet>>

\* create_wallet(&config, persistent_config)?; Ok(config)
create_wallet ==
    /\ pc = "create_wallet"
    /\ \E stored \in BOOLEAN :
          IF stored
          THEN /\ persistent_config' =
                     [persistent_config EXCEPT
                        !.seed = Some(Unwrap(Unwrap(config).derivation_path_info_opt).mnemonic_seed)]
               /\ writes' = Append(writes, "seed")
               /\ Ends(ReturnedOk(Unwrap(config)))
          ELSE /\ Ends(ReturnedErr("seed", "DatabaseError"))
               /\ UNCHANGED <<persistent_config, writes>>
    /\ UNCHANGED <<process, multi_config, seed_check, io, protocol,
                   mnemonic_passphrase, wallet>>

-----------------------------------------------------------------------------
-----------------------------------------------------------------------------
(* request_mnemonic_phrase, character by character: the text read from the  *)
(* input, its split into words.                                             *)

\* the longest text read
MaxText == 3
\* characters of the input: letters, the three separators of the split,
\* and the carriage return
Characters == {"a", "b", " ", "\t", "\n", "\r"}
\* the texts streams.stdin.read can deliver
StdinTexts == UNION {[1..n -> Characters] : n \in 0..MaxText}

\* |c| " \t\n".contains(c)
Separators == {" ", "\t", "\n"}
\* char::is_whitespace, what str::trim removes
Whitespace == {" ", "\t", "\n", "\r"}

\* str::split(pattern): the pieces between the separators, empty ones kept
RECURSIVE split(_)
split(text) ==
    IF text = <<>>
    THEN << <<>> >>
    ELSE LET rest == split(Tail(text)) IN
         IF Head(text) \in Separators
         THEN << <<>> >> \o rest
         ELSE << <<Head(text)>> \o Head(rest) >> \o Tail(rest)

\* .filter(|s| !s.is_empty())
filter_not_empty(pieces) == SelectSeq(pieces, LAMBDA s : s /= <<>>)

\* str::trim_start
RECURSIVE trim_start(_)
trim_start(s) ==
    IF s /= <<>> /\ Head(s) \in Whitespace THEN trim_start(Tail(s)) ELSE s
\* str::trim_end
RECURSIVE trim_end(_)
trim_end(s) ==
    IF s /= <<>> /\ s[Len(s)] \in Whitespace
    THEN trim_end(SubSeq(s, 1, Len(s) - 1))
    ELSE s
\* str::trim
trim(s) == trim_end(trim_start(s))

\* phrase.split(..).filter(..).map(|s| s.trim().to_string()).collect()
collect_words(text) ==
    LET pieces == filter_not_empty(split(text))
    IN  [i \in DOMAIN pieces |-> trim(pieces[i])]

\* request_mnemonic_phrase on a text of characters
request_mnemonic_phrase_of_text ==
    /\ pc = "request_mnemonic_phrase"
    /\ stdout' = flushed_write(flushed_write(stdout, REQUEST_PHRASE_INSTRUCTIONS),
                               REQUEST_PHRASE_PROMPT)
    /\ \E text \in StdinTexts :
          /\ reads' = Append(reads, [what |-> "phrase", got |-> "text", text |-> text])
          /\ phrase_words' = Some(collect_words(text))
    /\ pc' = "validate_mnemonic_words"
    /\ UNCHANGED <<persistent_config, process, multi_config, seed_check,
                   stdin_eof, protocol, mnemonic_passphrase,
                   consuming_derivation_path, earning_wallet_info,
                   make_parameters, mnemonic, seed, derivations, config, writes,
                   outcome>>

\* a recover flow that has come to request_mnemonic_phrase
SplitInit ==
    /\ persistent_config = [seed |-> None, password |-> None]
    /\ flow = "recover"
    /\ pc = "request_mnemonic_phrase"
    /\ multi_config \in {("language" :> Some(name)) @@ ("mnemonic" :> None) :
                            name \in LanguageNames}
    /\ seed_check = Some([ok |-> FALSE])
    /\ stdout = <<>>
    /\ stdin_eof = FALSE
    /\ reads = <<>>
    /\ attempt = 1
    /\ first_entry = None
    /\ cycles = <<>>
    /\ retry_result = None
    /\ request_result = None
    /\ mnemonic_passphrase \in {Some(line) : line \in Lines}
    /\ consuming_derivation_path = Some(DEFAULT_CONSUMING_DERIVATION_PATH)
    /\ earning_wallet_info = Some(Right(DEFAULT_EARNING_DERIVATION_PATH))
    /\ make_parameters = <<>>
    /\ phrase_words = None
    /\ mnemonic = None
    /\ seed = None
    /\ derivations = <<>>
    /\ config = None
    /\ writes = <<>>
    /\ outcome = None

SplitNext == request_mnemonic_phrase_of_text

SplitSpec == SplitInit /\ [][SplitNext]_vars

-----------------------------------------------------------------------------
(* The interactive protocol on its own: make_mnemonic_passphrase of either  *)
(* flow when no passphrase is configured, up to its return or its panic.    *)

\* either flow, at the call of request_mnemonic_passphrase
ProtocolInit ==
    /\ persistent_config = [seed |-> None, password |-> None]
    /\ flow \in {"generate", "recover"}
    /\ pc = "request_mnemonic_passphrase"
    /\ multi_config = ("mnemonic-passphrase" :> None)
    /\ seed_check = Some([ok |-> FALSE])
    /\ stdout = <<>>
    /\ stdin_eof = FALSE
    /\ reads = <<>>
    /\ attempt = 1
    /\ first_entry = None
    /\ cycles = <<>>
    /\ retry_result = None
    /\ request_result = None
    /\ mnemonic_passphrase = None
    /\ consuming_derivation_path = None
    /\ earning_wallet_info = None
    /\ make_parameters = <<>>
    /\ phrase_words = None
    /\ mnemonic = None
    /\ seed = None
    /\ derivations = <<>>
    /\ config = None
    /\ writes = <<>>
    /\ outcome = None

ProtocolNext ==
    \/ request_mnemonic_passphrase
    \/ request_password_with_retry
    \/ read_password
    \/ read_confirmation
    \/ GenerateWallet_request_mnemonic_passphrase_match
    \/ RecoverWallet_request_mnemonic_passphrase_match
    \/ acknowledge
    \/ GenerateWallet_make_mnemonic_passphrase_return
    \/ RecoverWallet_make_mnemonic_passphrase_return

\* the program is sequential: a step that can be taken is taken, and a read
\* returns (with a line, at the end of the input, or with an error)
ProtocolSpec == ProtocolInit /\ [][ProtocolNext]_vars /\ WF_vars(ProtocolNext)

Next ==
    \/ GenerateWallet_configure
    \/ RecoverWallet_configure
    \/ prepare_initialization_mode
    \/ GenerateWallet_parse_args
    \/ RecoverWallet_parse_args
    \/ GenerateWallet_make_mnemonic_passphrase
    \/ RecoverWallet_make_mnemonic_passphrase
    \/ request_mnemonic_passphrase
    \/ request_password_with_retry
    \/ read_password
    \/ read_confirmation
    \/ GenerateWallet_request_mnemonic_passphrase_match
    \/ RecoverWallet_request_mnemonic_passphrase_match
    \/ acknowledge
    \/ GenerateWallet_make_mnemonic_passphrase_return
    \/ RecoverWallet_make_mnemonic_passphrase_return
    \/ derivation_paths
    \/ GenerateWallet_make_mnemonic_seed
    \/ report_wallet_information
    \/ report_json
    \/ report_text
    \/ report_text_earning
    \/ RecoverWallet_make_mnemonic_seed
    \/ get_mnemonic
    \/ request_mnemonic_phrase
    \/ get_mnemonic_validate
    \/ make_wallet_creation_config
    \/ update_db_password
    \/ create_wallet

Spec == Init /\ [][Next]_vars

-----------------------------------------------------------------------------
(* Properties.                                                             *)

\* the mnemonic_seed_exists() of the running (or last) invocation returned r
SeedCheckReturned(r) == seed_check = Some(r)
SeedCheckFailed == IsSome(seed_check) /\ "err" \in DOMAIN Unwrap(seed_check)

\* no step after the guard has run: nothing generated, solicited, prompted,
\* read or derived
NothingAfterGuard ==
    /\ stdout = <<>>
    /\ reads = <<>>
    /\ make_parameters = <<>>
    /\ phrase_words = None
    /\ mnemonic = None
    /\ mnemonic_passphrase = None
    /\ seed = None
    /\ derivations = <<>>
    /\ config = None
    /\ writes = <<>>

\* C1: in both flows, when mnemonic_seed_exists() returned Ok(true) the
\* invocation has ended and no later step of parse_args has run: no mnemonic
\* generated or solicited, no prompt written or read, no seed and no key
\* derived.
C1_GuardInvariant ==
    SeedCheckReturned([ok |-> TRUE]) =>
        /\ pc = "start"
        /\ IsSome(outcome) /\ Unwrap(outcome).kind \in {"panic", "exit"}
        /\ NothingAfterGuard

C1_Witness ==
    /\ SeedCheckReturned([ok |-> TRUE])
    /\ flow = "generate"
    /\ IsSome(persistent_config.seed)
    /\ pc = "start"

\* C2: over any sequence of invocations of the two flows against the same
\* persisted configuration, a persisted seed is never changed or replaced.
C2_SeedNeverReplaced ==
    [][IsSome(persistent_config.seed) =>
          persistent_config'.seed = persistent_config.seed]_vars

\* a seed that an invocation persisted has met a later invocation's guard
C2_Witness ==
    /\ IsSome(persistent_config.seed)
    /\ persistent_config.seed /= Some(PreexistingSeed)
    /\ SeedCheckReturned([ok |-> TRUE])
    /\ pc = "start"

Mismatched(cycle) == cycle.first /= cycle.confirmation
EntryReads == {i \in DOMAIN reads : reads[i].what \in {"entry", "confirmation"}}
AcknowledgmentReads == {i \in DOMAIN reads : reads[i].what = "acknowledgment"}
RetriesExhausted == Panic(Message("RetriesExhausted", <<>>))

\* C3: the protocol never performs a 4th prompt/confirm cycle, and when the
\* two entries differ in each of 3 consecutive cycles it ends in the panic
\* that carries RetriesExhausted, with no passphrase returned.
C3_RetryBound ==
    /\ Len(cycles) <= 3
    /\ Count(stdout, Prompt(flow)) <= 3
    /\ Count(stdout, CONFIRM_PROMPT) <= 3
    /\ Cardinality(EntryReads) <= 6
    /\ (Len(cycles) = 3 /\ \A i \in 1..3 : Mismatched(cycles[i])) =>
          /\ request_result = None
          /\ mnemonic_passphrase = None
          /\ seed = None
          /\ \/ pc = "request_password_with_retry"
             \/ pc = "request_mnemonic_passphrase_match"
                    /\ retry_result = Some([err |-> "RetriesExhausted"])
             \/ pc = "start" /\ outcome = Some(RetriesExhausted)

C3_Witness ==
    /\ Len(cycles) = 3
    /\ \A i \in 1..3 : Mismatched(cycles[i])
    /\ flow = "generate"
    /\ pc = "start"
    /\ outcome = Some(RetriesExhausted)

\* the output of the protocol when k cycles mismatched and one more cycle
\* was prompted for
RECURSIVE MismatchedRounds(_, _)
MismatchedRounds(f, k) ==
    IF k = 0 THEN <<>>
    ELSE <<Prompt(f), CONFIRM_PROMPT, MISMATCH_MSG, TRY_AGAIN>> \o MismatchedRounds(f, k - 1)
ProtocolOutput(f, k) ==
    <<Intro(f)>> \o MismatchedRounds(f, k) \o <<Prompt(f), CONFIRM_PROMPT>>

\* the cycles before the last one mismatched and the last one matched
MatchedAfterMismatches ==
    /\ cycles /= <<>>
    /\ ~Mismatched(cycles[Len(cycles)])
    /\ \A i \in 1..(Len(cycles) - 1) : Mismatched(cycles[i])

\* C4: when the first k cycles (k in 0..2) mismatch and cycle k+1 matches,
\* the value of cycle k+1 is accepted without a fatal end, every mismatch is
\* followed by the mismatch message with "Try again." and a new first prompt,
\* and exactly k+1 first prompts and k+1 confirmation prompts are written.
C4_MatchAfterMismatches ==
    MatchedAfterMismatches =>
        LET k == Len(cycles) - 1
            value == cycles[Len(cycles)].first
        IN  /\ k \in 0..2
            /\ outcome = None
            /\ retry_result = Some([ok |-> value])
            /\ SubSeq(Texts(stdout), 1, 3 + 4 * k) = ProtocolOutput(flow, k)
            /\ Count(stdout, Prompt(flow)) = k + 1
            /\ Count(stdout, CONFIRM_PROMPT) = k + 1
            /\ Count(stdout, MISMATCH_MSG) = k
            /\ Count(stdout, TRY_AGAIN) = k
            /\ pc = "make_mnemonic_passphrase_return" =>
                  /\ value /= "" => request_result = Some(Some(value))
                  /\ value = "" => request_result = Some(None)

C4_Witness ==
    /\ MatchedAfterMismatches
    /\ Len(cycles) = 3
    /\ pc = "make_mnemonic_passphrase_return"
    /\ request_result = Some(Some("Mortimer"))

\* C5: in the generate flow a seed that exists in the persisted state makes
\* parse_args panic with its collision message: no result, no configuration
\* error.
C5_GenerateCollisionPanics ==
    (flow = "generate" /\ SeedCheckReturned([ok |-> TRUE])) =>
        /\ pc = "start"
        /\ outcome = Some(Panic(Message(GENERATE_COLLISION, <<>>)))
        /\ config = None

C5_Witness ==
    /\ flow = "generate"
    /\ SeedCheckReturned([ok |-> TRUE])
    /\ persistent_config.seed = Some(PreexistingSeed)
    /\ outcome = Some(Panic(Message(GENERATE_COLLISION, <<>>)))

\* C6: in the recover flow a seed that exists in the persisted state ends
\* the process with status 1 and the collision message, and nothing is
\* derived.
C6_RecoverCollisionExits ==
    (flow = "recover" /\ SeedCheckReturned([ok |-> TRUE])) =>
        /\ pc = "start"
        /\ outcome = Some(ExitProcess(1, Message(RECOVER_COLLISION, <<>>)))
        /\ mnemonic = None
        /\ seed = None
        /\ derivations = <<>>
        /\ config = None

C6_Witness ==
    /\ flow = "recover"
    /\ SeedCheckReturned([ok |-> TRUE])
    /\ persistent_config.seed = Some(PreexistingSeed)
    /\ outcome = Some(ExitProcess(1, Message(RECOVER_COLLISION, <<>>)))

\* C7: in both flows, when the existence check fails with a storage error,
\* parse_args returns that error as a configuration error of the parameter
\* "seed" (no panic, no exit) and nothing after the guard has run.
C7_StorageErrorReturned ==
    SeedCheckFailed =>
        /\ pc = "start"
        /\ outcome = Some(ReturnedErr("seed", Unwrap(seed_check).err))
        /\ NothingAfterGuard

C7_Witness ==
    /\ SeedCheckReturned([err |-> "NotPresent"])
    /\ flow = "recover"
    /\ outcome = Some(ReturnedErr("seed", "NotPresent"))

\* the merged configuration holds a passphrase
PassphraseConfigured ==
    /\ "mnemonic-passphrase" \in DOMAIN multi_config
    /\ IsSome(multi_config["mnemonic-passphrase"])

ProtocolTexts ==
    {GENERATE_INTRO, RECOVER_INTRO, GENERATE_PROMPT, RECOVER_PROMPT, CONFIRM_PROMPT,
     MISMATCH_MSG, TRY_AGAIN, NO_PASSPHRASE_WARNING}

\* C8: when the merged configuration holds a passphrase (the empty one
\* included), make_mnemonic_passphrase returns exactly it and the protocol is
\* skipped: no text of the protocol is written, no entry and no
\* acknowledgment is read, and nothing at all has been written or read when
\* make_mnemonic_passphrase returns.
C8_ConfiguredPassphraseSkipsProtocol ==
    PassphraseConfigured =>
        /\ mnemonic_passphrase = multi_config["mnemonic-passphrase"]
        /\ \A i \in DOMAIN stdout : stdout[i].text \notin ProtocolTexts
        /\ EntryReads = {}
        /\ AcknowledgmentReads = {}
        /\ cycles = <<>>
        /\ pc = "derivation_paths" => (stdout = <<>> /\ reads = <<>>)

C8_Witness ==
    /\ PassphraseConfigured
    /\ multi_config["mnemonic-passphrase"] = Some("")
    /\ flow = "generate"
    /\ pc = "derivation_paths"

\* the warning has been written
Warned == Count(stdout, NO_PASSPHRASE_WARNING) > 0
\* a cycle has matched with the empty value
MatchedEmpty == cycles /= <<>> /\ cycles[Len(cycles)] = [first |-> "", confirmation |-> ""]

\* C9 as stated: after the warning the flow does not go on to the seed
\* before a key press has been read from the input stream.
C9_AcknowledgedByKeyPress ==
    (Warned /\ IsSome(seed)) =>
        \E i \in DOMAIN reads : reads[i] = [what |-> "acknowledgment", got |-> "byte"]

\* C9, amended: a cycle that matches with the empty value is accepted, but
\* first the warning is written (once, as the last text of the protocol) and
\* then one read of the input stream is made; the flow goes on to the seed
\* only after that read has returned, whatever it returned (a byte, end of
\* input or an error).
C9_WarningThenOneRead ==
    /\ pc = "acknowledge" =>
          /\ MatchedEmpty
          /\ stdout[Len(stdout)].text = NO_PASSPHRASE_WARNING
          /\ AcknowledgmentReads = {}
          /\ request_result = None /\ mnemonic_passphrase = None /\ seed = None
    /\ (pc = "make_mnemonic_passphrase_return" /\ MatchedEmpty) =>
          /\ request_result = Some(None)
          /\ Count(stdout, NO_PASSPHRASE_WARNING) = 1
          /\ stdout[Len(stdout)].text = NO_PASSPHRASE_WARNING
          /\ AcknowledgmentReads = {Len(reads)}
          /\ seed = None
    /\ Warned =>
          /\ Count(stdout, NO_PASSPHRASE_WARNING) = 1
          /\ IsSome(mnemonic_passphrase) =>
                (mnemonic_passphrase = Some("") /\ Cardinality(AcknowledgmentReads) = 1)
          /\ IsSome(seed) =>
                (IsSome(mnemonic_passphrase) /\ Unwrap(seed).passphrase = "")
    /\ AcknowledgmentReads /= {} => Warned

C9_Witness ==
    /\ Warned
    /\ IsSome(seed)
    /\ \E i \in DOMAIN reads : reads[i] = [what |-> "acknowledgment", got |-> "eof"]

\* C10: a cycle that matches with a non-empty value is accepted at once:
\* exactly the entered value is returned, nothing is written after the
\* confirmation prompt (no warning, no mismatch message) and nothing more is
\* read.
C10_NonEmptyAcceptedImmediately ==
    (pc = "make_mnemonic_passphrase_return" /\ ~MatchedEmpty) =>
        LET last == cycles[Len(cycles)] IN
        /\ last.first = last.confirmation
        /\ last.first /= ""
        /\ request_result = Some(Some(last.first))
        /\ stdout[Len(stdout)].text = CONFIRM_PROMPT
        /\ ~Warned
        /\ Len(reads) = 2 * Len(cycles)
        /\ reads[Len(reads)].what = "confirmation"
        /\ AcknowledgmentReads = {}

C10_Witness ==
    /\ pc = "make_mnemonic_passphrase_return"
    /\ flow = "recover"
    /\ cycles = << [first |-> "Mortimer", confirmation |-> "Mortimer"] >>
    /\ request_result = Some(Some("Mortimer"))

-----------------------------------------------------------------------------
(* The earning wallet.                                                     *)

\* the entries of the output that show the earning wallet
EarningWalletReports == {i \in DOMAIN stdout : "earningWallet" \in DOMAIN stdout[i]}
\* the entries of the output that show the consuming wallet
ConsumingWalletReports == {i \in DOMAIN stdout : "consumingWallet" \in DOMAIN stdout[i]}
\* the key pairs derived at another path than the one of the consuming wallet
EarningDerivations ==
    {i \in DOMAIN derivations :
        derivations[i].path /= Unwrap(consuming_derivation_path)}
\* the invocation returned a result
Returned == pc = "start" /\ IsSome(outcome) /\ Unwrap(outcome).kind = "ok"

\* C11: once the earning wallet is resolved it is either a supplied address
\* or a derivation path, never both and never neither.  With an address no
\* key pair is derived for the earning wallet, and the report and the result
\* carry that address; with a path the report and the result carry an
\* address derived at that path.  The report shows the earning wallet at
\* most once, and a returned result always has an earning address.
C11_EarningWalletExclusive ==
    /\ IsSome(earning_wallet_info) =>
          LET info == Unwrap(earning_wallet_info) IN
          /\ DOMAIN info \in {{"left"}, {"right"}}
          /\ Cardinality(EarningWalletReports) <= 1
          /\ IsLeft(info) =>
                /\ EarningDerivations = {}
                /\ \A i \in EarningWalletReports :
                      stdout[i].earningWallet.address = [address |-> info.left]
                /\ IsSome(config) =>
                      Unwrap(config).earning_wallet_address_opt = Some([address |-> info.left])
          /\ ~IsLeft(info) =>
                /\ \A i \in EarningWalletReports :
                      /\ DOMAIN stdout[i].earningWallet.address = {"derived"}
                      /\ stdout[i].earningWallet.address.derived.path = info.right
                /\ IsSome(config) =>
                      /\ IsSome(Unwrap(config).earning_wallet_address_opt)
                      /\ DOMAIN Unwrap(Unwrap(config).earning_wallet_address_opt) = {"derived"}
                      /\ Unwrap(Unwrap(config).earning_wallet_address_opt).derived.path = info.right
    /\ (IsSome(config) \/ EarningWalletReports /= {} \/ Returned) => IsSome(earning_wallet_info)

C11_Witness ==
    /\ Returned
    /\ flow = "generate"
    /\ IsLeft(Unwrap(earning_wallet_info))
    /\ EarningWalletReports /= {}
    /\ Len(derivations) = 1

\* C12: when the earning wallet is a derivation path, the earning address of
\* the result, and the one of the generate flow's report, is the address
\* derived at that path from the seed the result carries as mnemonic_seed;
\* the consuming wallet of the report is derived from the same seed.
C12_EarningAddressFromResultSeed ==
    (IsSome(config) /\ ~IsLeft(Unwrap(earning_wallet_info))) =>
        LET result_seed == Unwrap(Unwrap(config).derivation_path_info_opt).mnemonic_seed
            path == Unwrap(earning_wallet_info).right
            expected == Wallet_from_keypair([seed |-> result_seed, path |-> path])
        IN  /\ path \in DerivationPaths
            /\ Unwrap(config).earning_wallet_address_opt = Some(expected)
            /\ \A i \in EarningWalletReports :
                  stdout[i].earningWallet = [derivationPath |-> path, address |-> expected]
            /\ \A i \in ConsumingWalletReports :
                  stdout[i].consumingWallet.address.derived.seed = result_seed
            /\ flow = "generate" => EarningWalletReports /= {}

C12_Witness ==
    /\ Returned
    /\ flow = "generate"
    /\ earning_wallet_info = Some(Right("m/44'/60'/0'/78/77"))
    /\ Unwrap(seed).passphrase = "Mortimer"
    /\ EarningWalletReports /= {}

-----------------------------------------------------------------------------
(* The recovery phrase.                                                    *)

\* the language the recover flow selected
SelectedLanguage == language_from_name(Unwrap(multi_config["language"]))
\* the recover flow has resolved a phrase and has put it to the validation
PhraseValidated ==
    /\ flow = "recover"
    /\ IsSome(phrase_words)
    /\ pc /= "validate_mnemonic_words"
\* the validation of the resolved phrase failed
ValidationFailed ==
    /\ PhraseValidated
    /\ "err" \in DOMAIN Mnemonic_validate(Unwrap(phrase_words), SelectedLanguage)

\* C13: when the phrase the recover flow resolved (from --mnemonic or from
\* the operator) fails the validation, the invocation has ended with
\* exit_process, status 1 and the message "\"<phrase>\" is not valid for
\* <language name> (<reason>)" made of exactly that phrase, the name of the
\* selected language and the reason of Mnemonic::validate; no mnemonic and
\* no seed were made, no key derived, no result assembled, nothing persisted.
C13_InvalidPhraseExits ==
    ValidationFailed =>
        /\ pc = "start"
        /\ outcome = Some(ExitProcess(1,
               Message("\"{}\" is not valid for {} ({})",
                       << Unwrap(phrase_words),
                          name_from_language(SelectedLanguage),
                          Mnemonic_validate(Unwrap(phrase_words), SelectedLanguage).err >>)))
        /\ mnemonic = None
        /\ seed = None
        /\ derivations = <<>>
        /\ config = None
        /\ writes = <<>>

C13_Witness ==
    /\ ValidationFailed
    /\ SelectedLanguage = "English"
    /\ Unwrap(phrase_words).wordlist = "Spanish"
    /\ Unwrap(phrase_words).checksum
    /\ Unwrap(outcome).message.args[3] = "invalid word in phrase"
    /\ \E i \in DOMAIN reads : reads[i].what = "phrase"

\* the texts the recover flow writes: the ones of the passphrase protocol
\* and the request for the phrase
RecoverTexts ==
    {RECOVER_INTRO, RECOVER_PROMPT, CONFIRM_PROMPT, MISMATCH_MSG, TRY_AGAIN,
     NO_PASSPHRASE_WARNING, REQUEST_PHRASE_INSTRUCTIONS, REQUEST_PHRASE_PROMPT}

\* C14: the recover flow writes nothing but the fixed texts of the
\* passphrase protocol and of the request for the phrase: nothing it writes
\* carries the mnemonic phrase, and it writes no wallet report (no record,
\* no instructions, no line of a wallet), in every state and so in every run
\* that returns a result.
C14_RecoverNeverEchoes ==
    flow = "recover" =>
        \A i \in DOMAIN stdout :
            /\ DOMAIN stdout[i] = {"text"}
            /\ stdout[i].text \in RecoverTexts

C14_Witness ==
    /\ Returned
    /\ flow = "recover"
    /\ IsSome(mnemonic)
    /\ \E i \in DOMAIN reads : reads[i] = [what |-> "phrase", got |-> "text"]
    /\ Count(stdout, REQUEST_PHRASE_PROMPT) = 1
    /\ Count(stdout, RECOVER_PROMPT) = 1

-----------------------------------------------------------------------------
(* The order of the steps.                                                 *)

\* the positions of the interactive passphrase protocol
ProtocolPositions ==
    {"request_mnemonic_passphrase", "request_password_with_retry",
     "read_password", "read_confirmation", "request_mnemonic_passphrase_match",
     "acknowledge", "make_mnemonic_passphrase_return"}
\* the passphrase was asked for
PassphrasePrompted == Count(stdout, Prompt(flow)) > 0
\* mnemonic resolution has begun: the factory was called, or the phrase was
\* asked for or taken from the configuration
MnemonicResolutionBegun ==
    \/ make_parameters /= <<>>
    \/ IsSome(phrase_words)
    \/ IsSome(mnemonic)
    \/ Count(stdout, REQUEST_PHRASE_PROMPT) > 0
    \/ "mnemonic" \in DOMAIN multi_config
    \/ "word-count" \in DOMAIN multi_config

\* C15 as stated: the mnemonic is resolved before the passphrase is
\* collected: no passphrase prompt is written, and no passphrase is held,
\* before the mnemonic has been generated or the phrase validated.
C15_MnemonicBeforePassphrase ==
    (PassphrasePrompted \/ IsSome(mnemonic_passphrase)) => IsSome(mnemonic)

\* C15, amended: after the guard has succeeded the passphrase is collected
\* first (from the configuration, or by the protocol), the mnemonic is
\* resolved after that, and the seed is made last, of that mnemonic and
\* that passphrase: while the protocol runs no mnemonic resolution has
\* begun, and mnemonic resolution begins only with the passphrase in hand.
C15_PassphraseBeforeMnemonic ==
    /\ (PassphrasePrompted \/ IsSome(mnemonic_passphrase) \/ MnemonicResolutionBegun) =>
          seed_check = Some([ok |-> FALSE])
    /\ (pc \in ProtocolPositions \/ mnemonic_passphrase = None) =>
          ~MnemonicResolutionBegun /\ seed = None
    /\ MnemonicResolutionBegun =>
          IsSome(mnemonic_passphrase) /\ pc \notin ProtocolPositions
    /\ IsSome(seed) =>
          /\ IsSome(mnemonic)
          /\ IsSome(mnemonic_passphrase)
          /\ Unwrap(seed) = [phrase |-> phrase(Unwrap(mnemonic)),
                             passphrase |-> Unwrap(mnemonic_passphrase)]

C15_Witness ==
    /\ Returned
    /\ flow = "generate"
    /\ Count(stdout, GENERATE_PROMPT) = 2
    /\ IsSome(mnemonic)
    /\ Unwrap(seed).passphrase = "Mortimer"

-----------------------------------------------------------------------------
(* The report of the generate flow.                                        *)

\* the positions of report_wallet_information
ReportPositions ==
    {"report_wallet_information", "report_json", "report_text", "report_text_earning"}
\* the paths report_wallet_information is given
ReportedPaths ==
    {Unwrap(consuming_derivation_path)}
    \cup (IF IsLeft(Unwrap(earning_wallet_info)) THEN {}
          ELSE {Unwrap(earning_wallet_info).right})

\* C16 as stated: a step of report_wallet_information derives no key pair
\* and reads nothing.
C16_ReportDerivesNothing ==
    [][(pc \in ReportPositions) => (derivations' = derivations /\ reads' = reads)]_vars

\* C16, amended: a step of report_wallet_information reads nothing from the
\* input stream, consults no argument but the json flag, and makes no
\* mnemonic, seed or passphrase; what it derives are key pairs from the
\* seed it was given, at the paths it was given (the consuming path, and
\* the earning path if there is one).
C16_ReportReadsNothing ==
    [][(pc \in ReportPositions) =>
          /\ reads' = reads
          /\ stdin_eof' = stdin_eof
          /\ make_parameters' = make_parameters
          /\ mnemonic' = mnemonic
          /\ mnemonic_passphrase' = mnemonic_passphrase
          /\ seed' = seed
          /\ consuming_derivation_path' = consuming_derivation_path
          /\ earning_wallet_info' = earning_wallet_info
          /\ persistent_config' = persistent_config
          /\ DOMAIN multi_config' \subseteq DOMAIN multi_config \cup {"json"}
          /\ Len(derivations') >= Len(derivations)
          /\ SubSeq(derivations', 1, Len(derivations)) = derivations
          /\ \A i \in (Len(derivations) + 1)..Len(derivations') :
                /\ derivations'[i].seed = Unwrap(seed)
                /\ derivations'[i].path \in ReportedPaths
    ]_vars

C16_Witness ==
    /\ flow = "generate"
    /\ pc = "db_password"
    /\ Len(derivations) = 2
    /\ EarningWalletReports /= {}
    /\ reads = <<>>

\* the structured records of the output
JsonReports == {i \in DOMAIN stdout : stdout[i].text = "json"}
\* the prose and the labeled lines of the human-readable report
TextReportTexts ==
    {REPORT_INSTRUCTIONS, "{}", "\n\n", "Consuming Wallet ({}): {}\n",
     "  Earning Wallet: {}\n", "  Earning Wallet ({}): {}\n"}
TextReports == {i \in DOMAIN stdout : stdout[i].text \in TextReportTexts}
\* the texts of the output from the first text of the report on
RECURSIVE ReportSuffix(_)
ReportSuffix(out) ==
    IF out = <<>> \/ out[1].text \in TextReportTexts \cup {"json"}
    THEN Texts(out)
    ELSE ReportSuffix(Tail(out))
\* report_wallet_information has returned
ReportDone == flow = "generate" /\ (pc = "db_password" \/ IsSome(config))

\* C17: the generate flow renders its report in one format, chosen by the
\* json flag: with the flag the output holds one structured record and none
\* of the prose or labeled lines, without it the instructions, the phrase
\* and the two labeled lines and no structured record; once the report is
\* done exactly one of the two is there, and it is the end of the output.
C17_OneReportFormat ==
    flow = "generate" =>
        /\ (JsonReports /= {} \/ TextReports /= {}) =>
              /\ "json" \in DOMAIN multi_config
              /\ IF multi_config["json"]
                 THEN TextReports = {} /\ Cardinality(JsonReports) = 1
                 ELSE JsonReports = {}
        /\ ReportDone =>
              ReportSuffix(stdout) =
                  IF multi_config["json"]
                  THEN << "json" >>
                  ELSE << REPORT_INSTRUCTIONS, "{}", "\n\n", "Consuming Wallet ({}): {}\n",
                          IF IsLeft(Unwrap(earning_wallet_info))
                          THEN "  Earning Wallet: {}\n"
                          ELSE "  Earning Wallet ({}): {}\n" >>

C17_Witness ==
    /\ Returned
    /\ flow = "generate"
    /\ multi_config["json"]
    /\ Cardinality(JsonReports) = 1
    /\ PassphrasePrompted

\* the entries of the output that show the mnemonic phrase
PhraseReports == {i \in DOMAIN stdout : "mnemonicPhrase" \in DOMAIN stdout[i]}

\* C18: in both formats the earning wallet of the report has a derivation
\* path and an address exactly when it was derived from a path, and the
\* address alone, under the label without a path, exactly when the address
\* was supplied; the consuming wallet always has its path and its address;
\* a finished report shows the phrase of the mnemonic, the consuming wallet
\* and the earning wallet once each.
C18_ReportShape ==
    /\ \A i \in EarningWalletReports :
          IF IsLeft(Unwrap(earning_wallet_info))
          THEN /\ DOMAIN stdout[i].earningWallet = {"address"}
               /\ stdout[i].text \in {"json", "  Earning Wallet: {}\n"}
          ELSE /\ DOMAIN stdout[i].earningWallet = {"derivationPath", "address"}
               /\ stdout[i].earningWallet.derivationPath = Unwrap(earning_wallet_info).right
               /\ stdout[i].text \in {"json", "  Earning Wallet ({}): {}\n"}
    /\ \A i \in ConsumingWalletReports :
          /\ DOMAIN stdout[i].consumingWallet = {"derivationPath", "address"}
          /\ stdout[i].consumingWallet.derivationPath = Unwrap(consuming_derivation_path)
          /\ stdout[i].consumingWallet.address =
                 [derived |-> [seed |-> Unwrap(seed),
                               path |-> Unwrap(consuming_derivation_path)]]
          /\ stdout[i].text \in {"json", "Consuming Wallet ({}): {}\n"}
    /\ \A i \in PhraseReports : stdout[i].mnemonicPhrase = phrase(Unwrap(mnemonic))
    /\ ReportDone =>
          /\ Cardinality(PhraseReports) = 1
          /\ Cardinality(ConsumingWalletReports) = 1
          /\ Cardinality(EarningWalletReports) = 1

C18_Witness ==
    /\ Returned
    /\ flow = "generate"
    /\ ~multi_config["json"]
    /\ IsLeft(Unwrap(earning_wallet_info))
    /\ Cardinality(EarningWalletReports) = 1
    /\ Cardinality(PhraseReports) = 1

-----------------------------------------------------------------------------
(* The persisted configuration.                                            *)

\* C19 as stated: the entry point returns the result without having written
\* to the persisted configuration.
C19_EntryPointWritesNothing == Returned => writes = <<>>

\* C19, amended: parse_args writes nothing to the persisted configuration:
\* until it has returned the result nothing is written.  configure then
\* records the database password and after it the seed, and returns the
\* result only after both were recorded, with the values of the result.
C19_WritesAfterParseArgs ==
    /\ config = None => writes = <<>>
    /\ writes \in {<<>>, << "db_password" >>, << "db_password", "seed" >>}
    /\ pc \in {"update_db_password", "create_wallet"} => IsSome(config)
    /\ Returned =>
          /\ writes = << "db_password", "seed" >>
          /\ Unwrap(outcome).config = Unwrap(config)
          /\ persistent_config =
                 [seed |-> Some(Unwrap(Unwrap(config).derivation_path_info_opt).mnemonic_seed),
                  password |-> Some(Unwrap(Unwrap(config).derivation_path_info_opt).db_password)]

C19_Witness ==
    /\ Returned
    /\ flow = "recover"
    /\ writes = << "db_password", "seed" >>
    /\ persistent_config.seed = seed

-----------------------------------------------------------------------------
(* Failures of the input stream.                                           *)

\* the reads of the given kinds that failed
FailedReads(kinds) ==
    {i \in DOMAIN reads : reads[i].got = "error" /\ reads[i].what \in kinds}
\* the invocation ended in a panic
Panicked == pc = "start" /\ IsSome(outcome) /\ Unwrap(outcome).kind = "panic"

\* C20 as stated: a failure of any interactive read (entry, confirmation,
\* acknowledgment, phrase) is fatal: after it the flow does nothing but
\* panic, and no result is assembled.
C20_ReadFailureIsFatal ==
    FailedReads({"entry", "confirmation", "acknowledgment", "phrase"}) /= {} =>
        /\ pc \in {"request_mnemonic_passphrase_match", "start"}
        /\ pc = "start" => Panicked
        /\ config = None

\* C20, amended: a failure of the read of the first entry, of the
\* confirmation or of the recovery phrase is the last read of the
\* invocation: the flow panics, with no seed, no result and nothing
\* persisted.  A failure of the acknowledgment read is ignored: the flow
\* goes on with the empty passphrase.
C20_RequiredReadFailureIsFatal ==
    /\ FailedReads({"entry", "confirmation", "phrase"}) /= {} =>
          /\ FailedReads({"entry", "confirmation", "phrase"}) = {Len(reads)}
          /\ \/ /\ pc = "request_mnemonic_passphrase_match"
                /\ retry_result = Some([err |-> INTERNAL_ERROR])
             \/ Panicked
          /\ seed = None
          /\ config = None
          /\ writes = <<>>
    /\ FailedReads({"acknowledgment"}) /= {} =>
          /\ pc /= "acknowledge"
          /\ IF pc = "make_mnemonic_passphrase_return"
             THEN request_result = Some(None)
             ELSE mnemonic_passphrase = Some("")
          /\ Panicked =>
                \/ FailedReads({"phrase"}) /= {}
                \/ Unwrap(outcome).message.text \in {CONSUMING_PANIC, EARNING_PANIC, NON_UTF8_PANIC}

C20_Witness ==
    /\ Panicked
    /\ flow = "recover"
    /\ Len(reads) = 4
    /\ reads[4] = [what |-> "confirmation", got |-> "error"]
    /\ Unwrap(outcome).message.text = INTERNAL_ERROR

-----------------------------------------------------------------------------
(* Malformed derivation paths.                                             *)

\* the consuming path is malformed; only the generate flow derives a key
\* pair at it (in its report)
MalformedConsumingPath ==
    /\ flow = "generate"
    /\ IsSome(consuming_derivation_path)
    /\ Unwrap(consuming_derivation_path) \notin DerivationPaths
\* the earning wallet is to be derived at a malformed path
MalformedEarningPath ==
    /\ IsSome(earning_wallet_info)
    /\ ~IsLeft(Unwrap(earning_wallet_info))
    /\ Unwrap(earning_wallet_info).right \notin DerivationPaths
\* the positions of the generate flow before the consuming key pair is derived
BeforeConsumingDerivation == {"make_mnemonic_seed", "report_wallet_information"}
\* the positions of the generate flow before the earning key pair is derived
BeforeEarningDerivation ==
    BeforeConsumingDerivation \cup {"report_json", "report_text", "report_text_earning"}
\* the positions of the recover flow before the earning key pair is derived
BeforeRecoverDerivation ==
    {"make_mnemonic_seed", "get_mnemonic", "request_mnemonic_phrase",
     "validate_mnemonic_words", "db_password"}

\* C21: a malformed derivation path that reaches a derivation (the consuming
\* path and the earning path in the report of the generate flow, the earning
\* path in the assembly of the result of both flows) is fatal: the
\* invocation panics with the message that names the path, and no result is
\* assembled, returned or persisted with it; no key pair is ever derived at
\* a malformed path.
C21_MalformedPathIsFatal ==
    /\ \A i \in DOMAIN derivations : derivations[i].path \in DerivationPaths
    /\ (MalformedConsumingPath \/ MalformedEarningPath) =>
          /\ config = None
          /\ writes = <<>>
          /\ pc = "start" => Unwrap(outcome).kind \in {"panic", "exit"}
    /\ (MalformedConsumingPath /\ pc \notin BeforeConsumingDerivation) =>
          outcome = Some(Panic(Message(
              "Couldn't make key pair from consuming derivation path '{}'",
              << Unwrap(consuming_derivation_path) >>)))
    /\ (MalformedEarningPath /\ ~MalformedConsumingPath /\ flow = "generate"
            /\ pc \notin BeforeEarningDerivation) =>
          outcome = Some(Panic(Message(
              "Couldn't make key pair from earning derivation path '{}'",
              << Unwrap(earning_wallet_info).right >>)))
    /\ (MalformedEarningPath /\ flow = "recover" /\ pc \notin BeforeRecoverDerivation) =>
          /\ pc = "start"
          /\ IsSome(seed) => Panicked /\ Unwrap(outcome).message.args =
                                             << Unwrap(earning_wallet_info).right >>

C21_Witness ==
    /\ MalformedEarningPath
    /\ flow = "recover"
    /\ IsSome(seed)
    /\ Panicked
    /\ consuming_derivation_path = Some("m/44'/60'/0'/77/78")

-----------------------------------------------------------------------------
(* A supplied earning address that does not parse.                         *)

\* --earning-wallet was given a text that is no well-formed address (and no
\* well-formed derivation path either)
UnparsableEarningAddress ==
    /\ "earning-wallet" \in DOMAIN multi_config
    /\ IsSome(multi_config["earning-wallet"])
    /\ "err" \in DOMAIN Wallet_from_str(Unwrap(multi_config["earning-wallet"]))
    /\ Unwrap(multi_config["earning-wallet"]) \notin DerivationPaths

-----------------------------------------------------------------------------
(* Secret material in the output and in the messages.                      *)

\* the invocation ended with a message: a panic or exit_process
EndedWithMessage ==
    pc = "start" /\ IsSome(outcome) /\ Unwrap(outcome).kind \in {"panic", "exit"}
\* what a wallet of the report may show
WalletFields == {"derivationPath", "address"}

\* C23 as stated: no error or termination message contains a mnemonic
\* phrase.
C23_NoMessageNamesAMnemonic ==
    (EndedWithMessage /\ Unwrap(outcome).message.text = NOT_VALID) =>
        Unwrap(outcome).message.args[1] \notin ValidPhrases

\* C23, amended: what is written to the output are texts, wallets (path and
\* address) and, once, in the report of the generate flow, the phrase of the
\* mnemonic: never the passphrase, never the seed.  A message that ends the
\* invocation holds no passphrase and no seed: its values are a derivation
\* path, or, for the failed validation of the recover flow, the phrase that
\* was rejected (from which no mnemonic and no seed were made), the language
\* and the reason.
C23_SecretsNotDuplicated ==
    /\ \A i \in DOMAIN stdout :
          /\ DOMAIN stdout[i] \subseteq
                 {"text", "mnemonicPhrase", "consumingWallet", "earningWallet"}
          /\ "consumingWallet" \in DOMAIN stdout[i] =>
                 DOMAIN stdout[i].consumingWallet \subseteq WalletFields
          /\ "earningWallet" \in DOMAIN stdout[i] =>
                 DOMAIN stdout[i].earningWallet \subseteq WalletFields
          /\ "mnemonicPhrase" \in DOMAIN stdout[i] =>
                 flow = "generate" /\ stdout[i].text \in {"json", "{}"}
    /\ Cardinality(PhraseReports) <= 1
    /\ EndedWithMessage =>
          LET message == Unwrap(outcome).message IN
          CASE message.text = NOT_VALID ->
                  /\ flow = "recover"
                  /\ message.args = << Unwrap(phrase_words),
                                       name_from_language(SelectedLanguage),
                                       Mnemonic_validate(Unwrap(phrase_words),
                                                         SelectedLanguage).err >>
                  /\ mnemonic = None /\ seed = None
            [] message.text = CONSUMING_PANIC ->
                  message.args = << Unwrap(consuming_derivation_path) >>
            [] message.text = EARNING_PANIC ->
                  message.args = << Unwrap(earning_wallet_info).right >>
            [] OTHER -> message.args = <<>>

C23_Witness ==
    /\ EndedWithMessage
    /\ Unwrap(outcome).message.text = NOT_VALID
    /\ Unwrap(outcome).message.args[1] \in ValidPhrases
    /\ mnemonic_passphrase = Some("Mortimer")
    /\ PassphrasePrompted

-----------------------------------------------------------------------------
(* Determinism of the recover flow.                                         *)

\* the result of a recover flow, as a function of what it was given
RecoverResult(language, words, passphrase, consuming, earning, db_password) ==
    LET s == Bip39_seed(Unwrap(Mnemonic_from_phrase(words, language)), passphrase)
        info == IF IsSome(earning) /\ Unwrap(earning) \in Addresses
                THEN Left(Unwrap(earning))
                ELSE Right(IF IsSome(earning) THEN Unwrap(earning)
                           ELSE DEFAULT_EARNING_DERIVATION_PATH)
    IN  [earning_wallet_address_opt |->
             Some(IF IsLeft(info) THEN [address |-> info.left]
                  ELSE [derived |-> [seed |-> s, path |-> info.right]]),
         derivation_path_info_opt |-> Some(
             [mnemonic_seed |-> s,
              db_password |-> db_password,
              consuming_derivation_path_opt |->
                  Some(IF IsSome(consuming) THEN Unwrap(consuming)
                       ELSE DEFAULT_CONSUMING_DERIVATION_PATH)])]
\* the result the recover flow returns for what this run was given, had its
\* database password been db_password
RecoverResultWith(db_password) ==
    RecoverResult(SelectedLanguage, Unwrap(phrase_words), Unwrap(mnemonic_passphrase),
                  multi_config["consuming-wallet"], multi_config["earning-wallet"],
                  db_password)
RecoverReturned == Returned /\ flow = "recover"

\* C24 as stated: the language, the words, the passphrase and the paths
\* determine the result of a recover flow: a run given the same of these
\* returns the result of this run, whatever else it is given.
C24_ResultOfPhrasePassphraseAndPaths ==
    RecoverReturned =>
        \A db_password \in DbPasswords :
            Unwrap(outcome).config = RecoverResultWith(db_password)

\* C24, amended: the language, the words, the passphrase, the paths and the
\* database password determine the result of a recover flow; its seed is
\* the seed of (mnemonic of the words, passphrase) and its consuming path is
\* the configured one, or the default.
C24_RecoverDeterministic ==
    RecoverReturned =>
        LET result == Unwrap(outcome).config
            info == Unwrap(result.derivation_path_info_opt)
        IN  /\ result = RecoverResultWith(Unwrap(multi_config["db-password"]))
            /\ info.mnemonic_seed =
                   Bip39_seed(Unwrap(Mnemonic_from_phrase(Unwrap(phrase_words),
                                                          SelectedLanguage)),
                              Unwrap(mnemonic_passphrase))
            /\ info.consuming_derivation_path_opt =
                   IF IsSome(multi_config["consuming-wallet"])
                   THEN multi_config["consuming-wallet"]
                   ELSE Some(DEFAULT_CONSUMING_DERIVATION_PATH)

C24_Witness ==
    /\ RecoverReturned
    /\ multi_config["mnemonic"] = None
    /\ Unwrap(phrase_words).words = 12
    /\ mnemonic_passphrase = Some("Mortimer")
    /\ multi_config["consuming-wallet"] = None
    /\ multi_config["earning-wallet"] = None
    /\ multi_config["db-password"] = Some("password123")

-----------------------------------------------------------------------------
(* The one mnemonic of the generate flow.                                   *)

GenerateReturned == Returned /\ flow = "generate"

\* C25: a generate flow that returns has asked the mnemonic factory once,
\* for a mnemonic of the type of the configured word count in the configured
\* language; the seed of the result is the seed of that mnemonic and the
\* resolved passphrase, and the phrase of the report is the phrase of that
\* mnemonic.
C25_OneMnemonic ==
    GenerateReturned =>
        LET mnemonic_type == Unwrap(for_word_count(Unwrap(multi_config["word-count"])))
            language == language_from_name(Unwrap(multi_config["language"]))
            info == Unwrap(Unwrap(outcome).config.derivation_path_info_opt)
        IN  /\ make_parameters = << <<mnemonic_type, language>> >>
            /\ IsSome(mnemonic)
            /\ Unwrap(mnemonic).mnemonic_type = mnemonic_type
            /\ Unwrap(mnemonic).language = language
            /\ info.mnemonic_seed =
                   Bip39_seed(Unwrap(mnemonic), Unwrap(mnemonic_passphrase))
            /\ Cardinality(PhraseReports) = 1
            /\ \A i \in PhraseReports :
                  stdout[i].mnemonicPhrase = phrase(Unwrap(mnemonic))

C25_Witness ==
    /\ GenerateReturned
    /\ multi_config["word-count"] = Some(15)
    /\ multi_config["language"] = Some("español")
    /\ make_parameters = << <<"Words15", "Spanish">> >>
    /\ PassphrasePrompted
    /\ mnemonic_passphrase = Some("Mortimer")

-----------------------------------------------------------------------------
(* The phrase prompt of the recover flow.                                   *)

\* the reads of request_mnemonic_phrase
PhraseReads == {i \in DOMAIN reads : reads[i].what = "phrase"}
\* get_mnemonic has looked at --mnemonic
MnemonicConsulted == flow = "recover" /\ "mnemonic" \in DOMAIN multi_config

\* C26: the recover flow asks the operator for the phrase exactly when
\* --mnemonic gave no words.  Words that were given are the words it
\* resolves, and neither the instructions nor the prompt are written and
\* no phrase is read; with no words given, request_mnemonic_phrase writes
\* the instructions, then the prompt, once each, and reads once.  A seed is
\* made only of words that passed the validation.
C26_PromptOnlyWithoutWords ==
    /\ MnemonicConsulted =>
          IF IsSome(multi_config["mnemonic"]) \/ pc = "request_mnemonic_phrase"
          THEN /\ Count(stdout, REQUEST_PHRASE_INSTRUCTIONS) = 0
               /\ Count(stdout, REQUEST_PHRASE_PROMPT) = 0
               /\ PhraseReads = {}
               /\ IsSome(multi_config["mnemonic"]) =>
                      phrase_words = multi_config["mnemonic"]
          ELSE /\ Count(stdout, REQUEST_PHRASE_INSTRUCTIONS) = 1
               /\ Count(stdout, REQUEST_PHRASE_PROMPT) = 1
               /\ \A i \in DOMAIN stdout :
                     stdout[i].text = REQUEST_PHRASE_PROMPT =>
                         i > 1 /\ stdout[i - 1].text = REQUEST_PHRASE_INSTRUCTIONS
               /\ Cardinality(PhraseReads) = 1
    /\ (flow = "recover" /\ ~MnemonicConsulted) =>
          /\ Count(stdout, REQUEST_PHRASE_PROMPT) = 0
          /\ PhraseReads = {}
          /\ phrase_words = None
    /\ (flow = "recover" /\ IsSome(seed)) =>
          /\ PhraseValidated
          /\ ~ValidationFailed
          /\ Unwrap(seed).phrase = Unwrap(phrase_words)

C26_Witness ==
    /\ RecoverReturned
    /\ multi_config["mnemonic"] = None
    /\ Count(stdout, REQUEST_PHRASE_PROMPT) = 1
    /\ Cardinality(PhraseReads) = 1
    /\ IsSome(seed)

-----------------------------------------------------------------------------
(* The words of request_mnemonic_phrase.                                    *)

\* the maximal runs of characters that are not whitespace, in order
RECURSIVE Runs(_)
Runs(text) ==
    IF text = <<>>
    THEN <<>>
    ELSE LET rest == Runs(Tail(text)) IN
         IF Head(text) \in Whitespace
         THEN rest
         ELSE IF Len(text) > 1 /\ text[2] \notin Whitespace
              THEN << <<Head(text)>> \o Head(rest) >> \o Tail(rest)
              ELSE << <<Head(text)>> >> \o rest
\* the text request_mnemonic_phrase has read
TextRead == reads[Len(reads)].text

\* C27 as stated: the words request_mnemonic_phrase returns are the maximal
\* runs of characters of the text that are not whitespace, in order, and
\* none of them is empty.
C27_WordsAreRuns ==
    (pc = "validate_mnemonic_words" /\ reads /= <<>>) =>
        /\ Unwrap(phrase_words) = Runs(TextRead)
        /\ \A i \in DOMAIN Unwrap(phrase_words) : Unwrap(phrase_words)[i] /= <<>>

-----------------------------------------------------------------------------
(* Phrases of an illegal number of words.                                   *)

\* the recover flow has resolved a phrase whose number of words is none of
\* 12, 15, 18, 21, 24
IllegalWordCount ==
    /\ flow = "recover"
    /\ IsSome(phrase_words)
    /\ Unwrap(phrase_words).words \notin WordCounts

\* C28: a phrase of an illegal number of words, from --mnemonic or typed,
\* is never accepted: once resolved it is put to the validation, and then
\* the invocation has ended with exit_process, status 1 and the message
\* that names the phrase; no mnemonic and no seed are made of it.  Every
\* seed of the recover flow is made of a phrase of a legal number of words.
C28_IllegalWordCountRejected ==
    /\ IllegalWordCount =>
          /\ mnemonic = None
          /\ seed = None
          /\ config = None
          /\ derivations = <<>>
          /\ pc \in {"validate_mnemonic_words", "start"}
          /\ pc = "start" =>
                /\ IsSome(outcome)
                /\ Unwrap(outcome).kind = "exit"
                /\ Unwrap(outcome).status = 1
                /\ Unwrap(outcome).message.text = NOT_VALID
                /\ Unwrap(outcome).message.args[1] = Unwrap(phrase_words)
    /\ (flow = "recover" /\ IsSome(seed)) =>
          /\ Unwrap(phrase_words).words \in WordCounts
          /\ Unwrap(seed).phrase.words \in WordCounts

C28_Witness ==
    /\ IllegalWordCount
    /\ multi_config["mnemonic"] = phrase_words
    /\ Unwrap(phrase_words).words = 13
    /\ pc = "start"
    /\ Unwrap(outcome).kind = "exit"

-----------------------------------------------------------------------------
(* From the generate flow to the recover flow.                              *)

\* the generate flow has made its mnemonic and its seed
GenerateMade == flow = "generate" /\ IsSome(mnemonic) /\ IsSome(seed)
\* the phrase of the mnemonic of the generate flow, and its language
GeneratedPhrase == phrase(Unwrap(mnemonic))
GeneratedLanguage == language_from_name(Unwrap(multi_config["language"]))

-----------------------------------------------------------------------------
(* The report and the assembly of the result.                               *)

\* the entries of the output that belong to the report
ReportEntries == JsonReports \cup TextReports
\* the texts of a finished report
FinishedReport ==
    IF multi_config["json"]
    THEN << "json" >>
    ELSE << REPORT_INSTRUCTIONS, "{}", "\n\n", "Consuming Wallet ({}): {}\n",
            IF IsLeft(Unwrap(earning_wallet_info))
            THEN "  Earning Wallet: {}\n"
            ELSE "  Earning Wallet ({}): {}\n" >>

\* C30 as stated: a part of the report is in the output only once the
\* result has been assembled.
C30_ReportAfterAssembly ==
    (flow = "generate" /\ ReportEntries /= {}) => IsSome(config)

\* C30, amended: the generate flow writes its report before it assembles
\* the result (seed, consuming derivation, report, assembly): while
\* report_wallet_information runs the seed is made and no result exists,
\* every part of the report is written of a made seed and a derived
\* consuming key pair, and when the result is assembled the report is
\* finished and the seed of the result is the seed that was reported of.
C30_ReportBeforeAssembly ==
    flow = "generate" =>
        /\ pc \in ReportPositions => IsSome(seed) /\ config = None
        /\ ReportEntries /= {} =>
              /\ IsSome(seed)
              /\ derivations /= <<>>
              /\ derivations[1] = [seed |-> Unwrap(seed),
                                   path |-> Unwrap(consuming_derivation_path)]
        /\ IsSome(config) =>
              /\ "json" \in DOMAIN multi_config
              /\ ReportSuffix(stdout) = FinishedReport
              /\ Unwrap(Unwrap(config).derivation_path_info_opt).mnemonic_seed
                     = Unwrap(seed)

C30_Witness ==
    /\ flow = "generate"
    /\ pc = "report_text_earning"
    /\ TextReports /= {}
    /\ config = None
    /\ IsSome(seed)

-----------------------------------------------------------------------------
(* The order of the human-readable report.                                  *)

\* the places of the output where the text is written
Places(text) == {i \in DOMAIN stdout : stdout[i].text = text}
\* the earning-wallet lines of the human-readable report
EarningLines == Places("  Earning Wallet: {}\n") \cup Places("  Earning Wallet ({}): {}\n")
\* every place of the first set is before every place of the second
Precede(first, second) == \A i \in first, j \in second : i < j
\* the human-readable report is being written, or was
TextReporting ==
    /\ flow = "generate"
    /\ "json" \in DOMAIN multi_config
    /\ ~multi_config["json"]

\* C31: the human-readable report writes the instructions, then the phrase
\* of the mnemonic, then the consuming-wallet line with path and address,
\* then the earning-wallet line, with its path exactly when the wallet was
\* derived; none is written twice, a later one is never there without the
\* earlier ones, and a finished report has each of them once.
C31_TextReportOrder ==
    TextReporting =>
        LET instructions == Places(REPORT_INSTRUCTIONS)
            phrases == Places("{}")
            consuming == Places("Consuming Wallet ({}): {}\n")
        IN  /\ Cardinality(instructions) <= 1
            /\ Cardinality(phrases) <= 1
            /\ Cardinality(consuming) <= 1
            /\ Cardinality(EarningLines) <= 1
            /\ Precede(instructions, phrases)
            /\ Precede(phrases, consuming)
            /\ Precede(consuming, EarningLines)
            /\ phrases /= {} => instructions /= {}
            /\ consuming /= {} => phrases /= {}
            /\ EarningLines /= {} => consuming /= {}
            /\ \A i \in phrases : stdout[i].mnemonicPhrase = phrase(Unwrap(mnemonic))
            /\ \A i \in consuming :
                  stdout[i].consumingWallet.derivationPath =
                      Unwrap(consuming_derivation_path)
            /\ \A i \in EarningLines :
                  ("derivationPath" \in DOMAIN stdout[i].earningWallet)
                      = ~IsLeft(Unwrap(earning_wallet_info))
            /\ ReportDone =>
                  /\ Cardinality(instructions) = 1
                  /\ Cardinality(phrases) = 1
                  /\ Cardinality(consuming) = 1
                  /\ Cardinality(EarningLines) = 1

C31_Witness ==
    /\ TextReporting
    /\ GenerateReturned
    /\ Cardinality(EarningLines) = 1
    /\ ~IsLeft(Unwrap(earning_wallet_info))
    /\ PassphrasePrompted

-----------------------------------------------------------------------------
(* Entries read at the end of the input.                                    *)

\* the confirmation reads
ConfirmationReads == {i \in DOMAIN reads : reads[i].what = "confirmation"}
\* the last cycle read its entry and its confirmation at the end of input
EofCycle ==
    /\ ConfirmationReads /= {}
    /\ LET k == CHOOSE i \in ConfirmationReads : \A j \in ConfirmationReads : j <= i
       IN  /\ reads[k].got = "eof"
           /\ k > 1
           /\ reads[k - 1] = [what |-> "entry", got |-> "eof"]
           /\ \A j \in EntryReads : j <= k

\* C32: an entry read at the end of the input is the empty string.  A cycle
\* whose entry and confirmation are both read at the end of the input
\* matches with the empty value, also after mismatched cycles: the warning
\* is written, request_mnemonic_passphrase returns None, the passphrase is
\* the empty one, and the protocol has not ended in a panic.
C32_EndOfInputIsEmptyEntry ==
    /\ (pc = "read_confirmation" /\ reads[Len(reads)] = [what |-> "entry", got |-> "eof"]) =>
          first_entry = Some("")
    /\ EofCycle =>
          /\ IF pc \in {"request_mnemonic_passphrase_match", "acknowledge",
                        "make_mnemonic_passphrase_return"}
             THEN /\ MatchedEmpty
                  /\ retry_result = Some([ok |-> ""])
                  /\ pc = "make_mnemonic_passphrase_return" =>
                         request_result = Some(None)
             ELSE mnemonic_passphrase = Some("")
          /\ pc /= "request_mnemonic_passphrase_match" =>
                 Count(stdout, NO_PASSPHRASE_WARNING) = 1
          /\ Panicked =>
                Unwrap(outcome).message.text \notin {RETRIES_EXHAUSTED, INTERNAL_ERROR}

C32_Witness ==
    /\ EofCycle
    /\ flow = "recover"
    /\ Len(cycles) = 2
    /\ cycles[1].first /= cycles[1].confirmation
    /\ pc = "make_mnemonic_passphrase_return"
    /\ request_result = Some(None)
    /\ Warned

-----------------------------------------------------------------------------
(* The empty passphrase, typed or configured.                               *)

\* the result of either flow for a mnemonic, a passphrase, the two wallet
\* parameters and the database password
ResultOf(m, passphrase, consuming, earning, db_password) ==
    LET s == Bip39_seed(m, passphrase)
        info == IF IsSome(earning) /\ Unwrap(earning) \in Addresses
                THEN Left(Unwrap(earning))
                ELSE Right(IF IsSome(earning) THEN Unwrap(earning)
                           ELSE DEFAULT_EARNING_DERIVATION_PATH)
    IN  [earning_wallet_address_opt |->
             Some(IF IsLeft(info) THEN [address |-> info.left]
                  ELSE [derived |-> [seed |-> s, path |-> info.right]]),
         derivation_path_info_opt |-> Some(
             [mnemonic_seed |-> s,
              db_password |-> db_password,
              consuming_derivation_path_opt |->
                  Some(IF IsSome(consuming) THEN Unwrap(consuming)
                       ELSE DEFAULT_CONSUMING_DERIVATION_PATH)])]
\* the operator confirmed the empty passphrase and acknowledged the warning
EmptyPassphraseTyped ==
    /\ "mnemonic-passphrase" \in DOMAIN multi_config
    /\ multi_config["mnemonic-passphrase"] = None
    /\ Warned
    /\ AcknowledgmentReads /= {}
\* the empty passphrase was configured
EmptyPassphraseConfigured ==
    /\ "mnemonic-passphrase" \in DOMAIN multi_config
    /\ multi_config["mnemonic-passphrase"] = Some("")

\* C33: the empty passphrase does not end the flow.  Once the warning is
\* acknowledged the passphrase is the empty string, and the result that is
\* returned is the result for the mnemonic, the empty passphrase, the wallet
\* parameters and the database password: the same whether the empty
\* passphrase was typed and confirmed or configured.
C33_EmptyPassphraseProceeds ==
    /\ (EmptyPassphraseTyped /\ pc /= "make_mnemonic_passphrase_return") =>
          /\ mnemonic_passphrase = Some("")
          /\ IsSome(seed) => Unwrap(seed).passphrase = ""
          /\ (pc = "start" /\ IsSome(outcome)) =>
                Unwrap(outcome).kind \in {"ok", "err"}
                \/ Unwrap(outcome).message.text \notin {RETRIES_EXHAUSTED, INTERNAL_ERROR}
    /\ (Returned /\ (EmptyPassphraseTyped \/ EmptyPassphraseConfigured)) =>
          Unwrap(outcome).config =
              ResultOf(Unwrap(mnemonic), "", multi_config["consuming-wallet"],
                       multi_config["earning-wallet"],
                       Unwrap(multi_config["db-password"]))

C33_Witness ==
    /\ Returned
    /\ flow = "generate"
    /\ EmptyPassphraseTyped
    /\ Unwrap(Unwrap(outcome).config.derivation_path_info_opt).mnemonic_seed.passphrase = ""

-----------------------------------------------------------------------------
(* What is persisted when parse_args does not return a result.              *)

\* the invocation ended
Ended == pc = "start" /\ IsSome(outcome)
\* the ends of parse_args that are not a result: the seed exists, the
\* storage fails, the phrase is not valid, the retries are exhausted, a
\* path is malformed
ParseArgsFailed ==
    /\ Ended
    /\ \/ Unwrap(outcome).kind \in {"panic", "exit"}
       \/ Unwrap(outcome).kind = "err" /\ config = None

\* C34: configure writes to the persisted configuration only once
\* parse_args has returned the result, the database password first and the
\* seed second.  Every panic and every exit_process happens within
\* parse_args, and when parse_args ends without a result (collision,
\* storage error, invalid phrase, exhausted retries, malformed path)
\* nothing was written by the invocation.
C34_NoWriteWithoutResult ==
    /\ (Ended /\ Unwrap(outcome).kind \in {"panic", "exit"}) => config = None
    /\ ParseArgsFailed => writes = <<>>
    /\ (pc \notin {"start", "update_db_password", "create_wallet"}) => writes = <<>>
    /\ \A i \in DOMAIN writes :
          /\ writes[i] = "db_password" => i = 1
          /\ writes[i] = "seed" => i = 2 /\ writes[1] = "db_password"
    /\ writes /= <<>> => IsSome(config)

C34_Witness ==
    /\ ParseArgsFailed
    /\ flow = "recover"
    /\ Unwrap(outcome).kind = "exit"
    /\ Unwrap(outcome).message.text = NOT_VALID
    /\ writes = <<>>
    /\ persistent_config = [seed |-> None, password |-> None]

-----------------------------------------------------------------------------
(* After the phrase is shown.                                               *)

-----------------------------------------------------------------------------
(* Termination of the interactive protocol.                                 *)

\* make_mnemonic_passphrase has returned the passphrase
ProtocolAccepted == pc = "derivation_paths" /\ IsSome(mnemonic_passphrase)
\* the protocol ended in a panic
ProtocolPanicked == Panicked /\ mnemonic_passphrase = None
\* the reads of entries and confirmations that did not fail
NoReadFailed == \A i \in DOMAIN reads : reads[i].got /= "error"
\* what the protocol reads and writes stays within three cycles
ProtocolBounded ==
    /\ Cardinality(EntryReads) <= 2 * MaxAttempts
    /\ Cardinality(AcknowledgmentReads) <= 1
    /\ Len(reads) <= 2 * MaxAttempts + 1
    /\ Count(stdout, Prompt(flow)) <= MaxAttempts
    /\ ProtocolPanicked =>
          /\ AcknowledgmentReads = {}
          /\ Unwrap(outcome).message.text \in {RETRIES_EXHAUSTED, INTERNAL_ERROR}
          /\ (Unwrap(outcome).message.text = RETRIES_EXHAUSTED) =>
                Cardinality(EntryReads) = 2 * MaxAttempts
          /\ (Unwrap(outcome).message.text = INTERNAL_ERROR) => ~NoReadFailed
    /\ pc = "start" => ProtocolPanicked

\* C36: the interactive protocol terminates on every input: it comes to the
\* return of the passphrase or to a panic, after at most three cycles, that
\* is at most six reads of entries and at most one read of the
\* acknowledgment; when no read fails the panic is the one of the exhausted
\* retries.
C36_ProtocolTerminates ==
    /\ []ProtocolBounded
    /\ <>(ProtocolAccepted \/ ProtocolPanicked)

C36_Witness ==
    /\ ProtocolAccepted
    /\ Cardinality(EntryReads) = 2 * MaxAttempts
    /\ Cardinality(AcknowledgmentReads) = 1
    /\ stdin_eof

-----------------------------------------------------------------------------
(* The passphrase that is accepted.                                         *)

\* the protocol has a value to return
ProtocolHasValue ==
    /\ pc \in {"request_mnemonic_passphrase_match", "acknowledge",
               "make_mnemonic_passphrase_return"}
    /\ IsSome(retry_result)
    /\ "ok" \in DOMAIN Unwrap(retry_result)
\* the cycle that was read last
LastCycle == cycles[Len(cycles)]

\* C37: the value the protocol accepts is the value of its last cycle, whose
\* entry and confirmation are equal, and every cycle before it is a
\* mismatch; what request_mnemonic_passphrase returns is that value (None
\* for the empty one), make_mnemonic_passphrase hands on exactly that
\* value, and the seed is made with the passphrase handed on.
C37_AcceptedValueWasConfirmed ==
    /\ [](ProtocolHasValue =>
            /\ cycles /= <<>>
            /\ LastCycle.first = LastCycle.confirmation
            /\ Unwrap(retry_result).ok = LastCycle.first
            /\ \A i \in 1..(Len(cycles) - 1) : Mismatched(cycles[i])
            /\ pc = "make_mnemonic_passphrase_return" =>
                  request_result = Some(IF LastCycle.first = "" THEN None
                                        ELSE Some(LastCycle.first)))
    /\ [](IsSome(seed) => Unwrap(seed).passphrase = Unwrap(mnemonic_passphrase))
    /\ [][(pc = "make_mnemonic_passphrase_return") =>
              (mnemonic_passphrase' = Some(LastCycle.first))]_vars
    /\ [][(IsSome(mnemonic_passphrase) /\ pc /= "start") =>
              (mnemonic_passphrase' = mnemonic_passphrase)]_vars

C37_Witness ==
    /\ ProtocolHasValue
    /\ pc = "make_mnemonic_passphrase_return"
    /\ Len(cycles) = 2
    /\ cycles[1] = [first |-> "remitroM", confirmation |-> "Mortimer"]
    /\ LastCycle = [first |-> "Mortimer", confirmation |-> "Mortimer"]
    /\ request_result = Some(Some("Mortimer"))

====
